---- MODULE Spec2Model ----
(***************************************************************************)
(* ChatRecommend: the completion scheduler (debounce), the suggestion      *)
(* engine, the context assembler, and the summary / style refresh          *)
(* policies, modelled from the Go sources.                                 *)
(*                                                                         *)
(* Text is a sequence of runes.  An ASCII rune is written as itself, any   *)
(* other rune by its code point ("U8FD1"), so that len([]rune(s)) is Len   *)
(* and len(s) is ByteLen.                                                  *)
(***************************************************************************)
EXTENDS Integers, Sequences, FiniteSets, TLC

(***************************************************************************)
(* Bounds of the model                                                     *)
(***************************************************************************)
NCalls == 3
NFairCalls == 2
LastStart == 1
MaxSaves == 4
MaxRefreshCalls == 2

(***************************************************************************)
(* Text helpers                                                            *)
(***************************************************************************)
Min(a, b) == IF a < b THEN a ELSE b

Max(a, b) == IF a > b THEN a ELSE b

Fill(r, n) == [i \in 1..n |-> r]

RECURSIVE Concat(_)
Concat(ss) == IF ss = <<>> THEN <<>> ELSE Head(ss) \o Concat(Tail(ss))

RuneLen(s) == Len(s)

AsciiRunes ==
    {"=", " ", "\n", "[", "]", ":", ".", "-", "{", "}",
     "0", "1", "2", "3", "4", "5", "6", "7", "8", "9",
     "a", "b", "c", "d", "e", "f", "h", "i", "l", "m", "n", "o", "r", "s", "u",
     "x", "y", "z"}

\* the pictographic range 0x1F300..0x1F9FF tested by analyzeStyle
EmojiRunes == {"U1F600", "U1F44D"}

RuneBytes(r) == IF r \in AsciiRunes THEN 1 ELSE IF r \in EmojiRunes THEN 4 ELSE 3

RECURSIVE ByteLen(_)
ByteLen(s) == IF s = <<>> THEN 0 ELSE RuneBytes(Head(s)) + ByteLen(Tail(s))

StartsWithAt(s, i, pat) ==
    /\ i + Len(pat) - 1 <= Len(s)
    /\ \A k \in 1..Len(pat) : s[i + k - 1] = pat[k]

\* strings.Index: the 0-based position of the first occurrence, -1 when absent
\* (positions counted in runes; the callers only slice at the position found).
StringsIndex(s, pat) ==
    LET hits == {i \in 1..(Len(s) + 1) : StartsWithAt(s, i, pat)}
    IN  IF hits = {} THEN -1 ELSE (CHOOSE i \in hits : \A j \in hits : i <= j) - 1

Prefix(s, n) == SubSeq(s, 1, n)

Suffix(s, n) == SubSeq(s, n + 1, Len(s))

(***************************************************************************)
(* The literal texts of internal/context/context.go                        *)
(***************************************************************************)
SummaryHeader ==
    <<"=", "=", "=", " ", "U5BF9", "U8BDD", "U80CC", "U666F", "U4FE1", "U606F",
      " ", "=", "=", "=", "\n">>

StyleHeader ==
    <<"=", "=", "=", " ", "U7528", "U6237", "U8BED", "U8A00", "U98CE", "U683C",
      " ", "=", "=", "=", "\n">>

HistoryMarker ==
    <<"=", "=", "=", " ", "U8FD1", "U671F", "U5BF9", "U8BDD", "U5386", "U53F2",
      " ", "=", "=", "=">>

HistoryHeader == HistoryMarker \o <<"\n">>

InputHeader ==
    <<"=", "=", "=", " ", "U5F53", "U524D", "U8F93", "U5165", " ", "=", "=", "=", "\n">>

TruncatedMark == <<"\n", "[", "U4E0A", "U4E0B", "U6587", "U5DF2", "U622A", "U65AD", "]">>

Ellipsis == <<".", ".", ".">>

\* context.go:142, "reserve some room"
ReservedRunes == 100

\* context.go:91, "1 token is about 3 characters"
RunesPerToken == 3

(***************************************************************************)
(* State                                                                   *)
(***************************************************************************)
VARIABLES
    config,         \* the loaded configuration (config.Config)
    now,            \* the clock, in ticks
    conversations,  \* table conversations: row i has ID i
    messages,       \* table messages, in insertion order
    summaries,      \* table summaries
    styles,         \* table styles
    debounceMap,    \* Engine.debounceMap: debounce key -> timer (0: no entry)
    calls,          \* the GetSuggestionsWithDebounce / GetSuggestions calls
    timers,         \* the time.AfterFunc timer of each call and its callback
    resultChan,     \* per call: chan *AutocompleteResponse, capacity 1
    errorChan,      \* per call: chan error, capacity 1
    llmCalls,       \* the completions asked of the provider, in order
    buildCalls,     \* the calls on whose behalf BuildContext was entered, in order
    tasks,          \* the SaveMessage requests with their background goroutine,
                    \* and the direct callers of UpdateSummary
    summaryCalls,   \* the summaries asked of the provider, in order
    evalIn,         \* inputs of a policy / truncation evaluation
    evalOut,        \* its result
    provider,       \* the callPython / callPythonForSummary invocations
    conn            \* a WebSocket connection: what the client has sent and
                    \* where its readPump stands

dbVars == <<conversations, messages, summaries, styles>>

engineVars == <<debounceMap, calls, timers, resultChan, errorChan, llmCalls, buildCalls>>

saveVars == <<tasks, summaryCalls>>

evalVars == <<evalIn, evalOut>>

vars == <<config, now, dbVars, engineVars, saveVars, evalVars, provider, conn>>

(***************************************************************************)
(* The persistence store (gorm over SQLite).  A table is the sequence of   *)
(* its rows; a row's primary key ID is its position.                       *)
(***************************************************************************)
NoRow == 0

\* db.Where(...).First(&row): of the rows that match, the one with the least
\* primary key
FirstRow(hits) == IF hits = {} THEN NoRow ELSE CHOOSE i \in hits : \A j \in hits : i <= j

ConversationByExternalID(externalID) ==
    FirstRow({i \in 1..Len(conversations) : conversations[i] = externalID})

ConversationByID(id) == IF id \in 1..Len(conversations) THEN id ELSE NoRow

SummaryRowIn(table, conversationID) ==
    FirstRow({i \in 1..Len(table) : table[i].ConversationID = conversationID})

SummaryRowOf(conversationID) == SummaryRowIn(summaries, conversationID)

StyleRowIn(table, conversationID, userID) ==
    FirstRow({i \in 1..Len(table) :
                 table[i].ConversationID = conversationID /\ table[i].UserID = userID})

StyleRowOf(conversationID, userID) == StyleRowIn(styles, conversationID, userID)

\* time.Now().UnixNano() and gorm's CreatedAt: a reading of the clock that is
\* later than every reading already stored in the messages table
NanosPerTick == 10

UnixNano == now * NanosPerTick + Len(messages) + 1

MessageIDsOf(conversationID) ==
    {i \in 1..Len(messages) : messages[i].ConversationID = conversationID}

\* ORDER BY sequence, created_at (rows that tie come out in primary-key order)
MessageBefore(i, j) ==
    \/ messages[i].Sequence < messages[j].Sequence
    \/ /\ messages[i].Sequence = messages[j].Sequence
       /\ messages[i].CreatedAt < messages[j].CreatedAt
    \/ /\ messages[i].Sequence = messages[j].Sequence
       /\ messages[i].CreatedAt = messages[j].CreatedAt
       /\ i < j

RECURSIVE SortIDs(_)
SortIDs(ids) ==
    IF ids = {} THEN <<>>
    ELSE LET first == CHOOSE i \in ids : \A j \in ids \ {i} : MessageBefore(i, j)
         IN  <<first>> \o SortIDs(ids \ {first})

Reverse(s) == [i \in 1..Len(s) |-> s[Len(s) + 1 - i]]

\* handler.go:150-153 and 133-136: Order("sequence ASC, created_at ASC")
AllMessages(conversationID) ==
    LET ids == SortIDs(MessageIDsOf(conversationID))
    IN  [k \in 1..Len(ids) |-> messages[ids[k]]]

\* context.go:104-114: of the keys the query returned, newest first, the first
\* `limit`, reversed
RecentPage(descending, limit) ==
    Reverse(Prefix(descending, Min(limit, Len(descending))))

\* context.go:100-117, on a table in which no two rows of the conversation tie
\* in both columns of the ORDER BY clause (for rows that tie see OrderedReads)
getRecentMessages(conversationID, limit) ==
    LET page == RecentPage(Reverse(SortIDs(MessageIDsOf(conversationID))), limit)
    IN  [k \in 1..Len(page) |-> messages[page[k]]]

(***************************************************************************)
(* internal/style/style.go: the stored feature bundle and its rendering    *)
(***************************************************************************)
\* Features "{}" of a freshly created style row
EmptyFeatures ==
    [Vocabulary |-> <<>>, SentenceLength |-> [num |-> 0, den |-> 1],
     EmojiUsage |-> [num |-> 0, den |-> 1], Tone |-> "",
     Punctuation |-> <<>>, CommonPhrases |-> <<>>]

NewStyle(conversationID, userID) ==
    [ConversationID |-> conversationID, UserID |-> userID, Features |-> EmptyFeatures,
     Description |-> <<>>, LastMessageCount |-> 0, LastUpdatedAt |-> now]

Digit(d) == CASE d = 0 -> "0" [] d = 1 -> "1" [] d = 2 -> "2" [] d = 3 -> "3"
              [] d = 4 -> "4" [] d = 5 -> "5" [] d = 6 -> "6" [] d = 7 -> "7"
              [] d = 8 -> "8" [] d = 9 -> "9"

RECURSIVE Decimal(_)
Decimal(n) == IF n < 10 THEN <<Digit(n)>> ELSE Decimal(n \div 10) \o <<Digit(n % 10)>>

\* fmt "%.1f" of num/den >= 0: the nearest tenth, an exact tie going to the even one
FormatOneDecimal(q) ==
    LET scaled == 10 * q.num
        floor == scaled \div q.den
        rest == 2 * (scaled % q.den)
        tenths == IF rest > q.den \/ (rest = q.den /\ floor % 2 = 1) THEN floor + 1 ELSE floor
    IN  Decimal(tenths \div 10) \o <<".">> \o <<Digit(tenths % 10)>>

ToneRunes(tone) ==
    CASE tone = "casual" -> <<"c", "a", "s", "u", "a", "l">>
      [] tone = "formal" -> <<"f", "o", "r", "m", "a", "l">>
      [] tone = "friendly" -> <<"f", "r", "i", "e", "n", "d", "l", "y">>
      [] OTHER -> <<>>

\* the texts of style.go:160-171
StyleLabels ==
    [title |-> <<"U7528", "U6237", "U7684", "U8BED", "U8A00", "U98CE", "U683C", "U7279",
                 "U5F81", "UFF1A", "\n">>,
     tone |-> <<"-", " ", "U8BED", "U6C14", "UFF1A">>,
     length |-> <<"-", " ", "U5E73", "U5747", "U53E5", "U5B50", "U957F", "U5EA6", "UFF1A">>,
     unit |-> <<"U5B57", "\n">>,
     phrases |-> <<"-", " ", "U5E38", "U7528", "U77ED", "U8BED", "UFF1A">>,
     delimiter |-> <<"U3001">>]

RECURSIVE Join(_, _)
Join(ss, sep) ==
    IF ss = <<>> THEN <<>>
    ELSE IF Len(ss) = 1 THEN ss[1]
    ELSE ss[1] \o sep \o Join(Tail(ss), sep)

\* a rendering that lists every common phrase
RenderStylePromptAllPhrases(features) ==
    IF DOMAIN features.Vocabulary = {} THEN <<>>
    ELSE StyleLabels.title
         \o (IF features.Tone # "" THEN StyleLabels.tone \o ToneRunes(features.Tone) \o <<"\n">>
             ELSE <<>>)
         \o (IF features.SentenceLength.num > 0
             THEN StyleLabels.length \o FormatOneDecimal(features.SentenceLength)
                  \o StyleLabels.unit
             ELSE <<>>)
         \o (IF Len(features.CommonPhrases) > 0
             THEN StyleLabels.phrases \o Join(features.CommonPhrases, StyleLabels.delimiter)
                  \o <<"\n">>
             ELSE <<>>)

\* style.go:150-177 on the decoded features of the row
RenderStylePrompt(features) ==
    IF DOMAIN features.Vocabulary = {} THEN <<>>
    ELSE StyleLabels.title
         \o (IF features.Tone # "" THEN StyleLabels.tone \o ToneRunes(features.Tone) \o <<"\n">>
             ELSE <<>>)
         \o (IF features.SentenceLength.num > 0
             THEN StyleLabels.length \o FormatOneDecimal(features.SentenceLength)
                  \o StyleLabels.unit
             ELSE <<>>)
         \o (IF Len(features.CommonPhrases) > 0
             THEN StyleLabels.phrases
                  \o Join(Prefix(features.CommonPhrases,
                                 Min(5, Len(features.CommonPhrases))),
                          StyleLabels.delimiter)
                  \o <<"\n">>
             ELSE <<>>)

(***************************************************************************)
(* internal/context/context.go                                             *)
(***************************************************************************)
\* a truncation that also rewrites a context of exactly the budget
truncateContextBelow(context, maxLength) ==
    IF RuneLen(context) < maxLength THEN context
    ELSE
        LET historyStart == StringsIndex(context, HistoryMarker)
        IN  IF historyStart = -1
            THEN Prefix(context, Min(maxLength, RuneLen(context))) \o Ellipsis
            ELSE
                LET prefix == Prefix(context, historyStart)
                    history == Suffix(context, historyStart)
                    availableLength == maxLength - RuneLen(prefix) - ReservedRunes
                IN  IF availableLength <= 0
                    THEN prefix \o TruncatedMark
                    ELSE IF RuneLen(history) > availableLength
                         THEN prefix \o Prefix(history, availableLength) \o TruncatedMark
                         ELSE prefix \o history

\* a truncation that cuts the whole text at the budget, history section or not
truncateContextFromStart(context, maxLength) ==
    IF RuneLen(context) <= maxLength THEN context
    ELSE Prefix(context, maxLength) \o Ellipsis

\* context.go:120-156
truncateContext(context, maxLength) ==
    IF RuneLen(context) <= maxLength THEN context
    ELSE
        LET historyStart == StringsIndex(context, HistoryMarker)
        IN  IF historyStart = -1
            THEN IF RuneLen(context) > maxLength
                 THEN Prefix(context, maxLength) \o Ellipsis
                 ELSE context
            ELSE
                LET prefix == Prefix(context, historyStart)
                    history == Suffix(context, historyStart)
                    availableLength == maxLength - RuneLen(prefix) - ReservedRunes
                IN  IF availableLength <= 0
                    THEN prefix \o TruncatedMark
                    ELSE IF RuneLen(history) > availableLength
                         THEN prefix \o Prefix(history, availableLength) \o TruncatedMark
                         ELSE prefix \o history

MessageLine(senderID, content) == <<"[">> \o senderID \o <<"]", ":", " ">> \o content

HistoryLines(recentMessages) ==
    Concat([k \in 1..Len(recentMessages) |->
              MessageLine(recentMessages[k].SenderID, recentMessages[k].Content)
                  \o <<"\n">>])

\* a composition that writes the style section before the summary section
ComposeContextStyleFirst(summaryPrompt, stylePrompt, recentMessages, senderID, currentInput) ==
    (IF stylePrompt # <<>> THEN StyleHeader \o stylePrompt \o <<"\n", "\n">> ELSE <<>>)
    \o (IF summaryPrompt # <<>> THEN SummaryHeader \o summaryPrompt \o <<"\n", "\n">> ELSE <<>>)
    \o (IF Len(recentMessages) > 0
        THEN HistoryHeader \o HistoryLines(recentMessages) \o <<"\n">>
        ELSE <<>>)
    \o InputHeader \o MessageLine(senderID, currentInput)

\* context.go:58-88: the four labelled sections
ComposeContext(summaryPrompt, stylePrompt, recentMessages, senderID, currentInput) ==
    (IF summaryPrompt # <<>> THEN SummaryHeader \o summaryPrompt \o <<"\n", "\n">> ELSE <<>>)
    \o (IF stylePrompt # <<>> THEN StyleHeader \o stylePrompt \o <<"\n", "\n">> ELSE <<>>)
    \o (IF Len(recentMessages) > 0
        THEN HistoryHeader \o HistoryLines(recentMessages) \o <<"\n">>
        ELSE <<>>)
    \o InputHeader \o MessageLine(senderID, currentInput)

\* context.go:88-96: the budget check
BoundContext(context, maxContextTokens) ==
    IF RuneLen(context) > maxContextTokens * RunesPerToken
    THEN truncateContext(context, maxContextTokens * RunesPerToken)
    ELSE context

(***************************************************************************)
(* Lazy creation of the summary and style rows, as BuildContext sees it    *)
(***************************************************************************)
\* part_001:47-54
NewSummary(conversationID) ==
    [ConversationID |-> conversationID, Prompt |-> <<>>, KeyInfo |-> <<"[", "]">>,
     LastMessageCount |-> 0, LastUpdatedAt |-> now, Version |-> 1]

\* part_001:36-60 run without interruption: the table afterwards
SummariesAfterGetOrCreate(conversationID) ==
    IF SummaryRowOf(conversationID) = NoRow
    THEN Append(summaries, NewSummary(conversationID))
    ELSE summaries

\* part_001:114-120
GetSummaryPrompt(conversationID) ==
    LET table == SummariesAfterGetOrCreate(conversationID)
    IN  table[SummaryRowIn(table, conversationID)].Prompt

\* style.go:40-64 run without interruption: the table afterwards
StylesAfterGetOrCreate(conversationID, userID) ==
    IF StyleRowOf(conversationID, userID) = NoRow
    THEN Append(styles, NewStyle(conversationID, userID))
    ELSE styles

\* style.go:132-148 and 150-177
GetStylePrompt(conversationID, userID) ==
    LET table == StylesAfterGetOrCreate(conversationID, userID)
    IN  RenderStylePrompt(table[StyleRowIn(table, conversationID, userID)].Features)

\* the queries of BuildContext that can fail in the store
ContextQueries == {"conversation", "summary", "style", "messages"}

\* a BuildContext in which a failing summary lookup is fatal too
BuildContextSummaryFatal(faults, conversationID, senderID, currentInput) ==
    IF ConversationByID(conversationID) = NoRow \/ faults \cap {"conversation", "summary", "messages"} # {}
    THEN [ok |-> FALSE, context |-> <<>>, truncated |-> FALSE]
    ELSE LET composed ==
                 ComposeContext(GetSummaryPrompt(conversationID),
                                IF "style" \in faults THEN <<>>
                                ELSE GetStylePrompt(conversationID, senderID),
                                getRecentMessages(conversationID,
                                                  config.Context.RecentMessagesCount),
                                senderID, currentInput)
         IN  [ok |-> TRUE,
              context |-> BoundContext(composed, config.Context.MaxContextTokens),
              truncated |->
                  RuneLen(composed) > config.Context.MaxContextTokens * RunesPerToken]

\* context.go:34-97, where the queries in faults return an error of the store:
\* the conversation lookup (36-38) and the recent-message fetch (53-56) are
\* fatal, a failed summary or style lookup (41-50) leaves an empty prompt
BuildContextUnder(faults, conversationID, senderID, currentInput) ==
    IF "conversation" \in faults \/ ConversationByID(conversationID) = NoRow
    THEN [ok |-> FALSE, context |-> <<>>, truncated |-> FALSE]
    ELSE IF "messages" \in faults
    THEN [ok |-> FALSE, context |-> <<>>, truncated |-> FALSE]
    ELSE LET summaryPrompt == IF "summary" \in faults THEN <<>>
                              ELSE GetSummaryPrompt(conversationID)
             stylePrompt == IF "style" \in faults THEN <<>>
                            ELSE GetStylePrompt(conversationID, senderID)
             composed ==
                 ComposeContext(summaryPrompt, stylePrompt,
                                getRecentMessages(conversationID,
                                                  config.Context.RecentMessagesCount),
                                senderID, currentInput)
         IN  [ok |-> TRUE,
              context |-> BoundContext(composed, config.Context.MaxContextTokens),
              truncated |->
                  RuneLen(composed) > config.Context.MaxContextTokens * RunesPerToken]

\* context.go:34-96 on a healthy store
BuildContext(conversationID, senderID, currentInput) ==
    BuildContextUnder({}, conversationID, senderID, currentInput)

(***************************************************************************)
(* autocomplete.Engine (part_002)                                          *)
(***************************************************************************)
Calls == 1..NCalls

NoTimer == 0

\* part_002:119, 5*time.Second: one tick of the clock is five seconds, and
\* config.Autocomplete.DebounceMs is given in ticks
SafetyMargin == 1

DebounceTicks == 1

\* the clock stops once the last call that may be issued has run out its wait
MaxTime == LastStart + DebounceTicks * 2 + SafetyMargin

DebounceDuration == config.Autocomplete.DebounceMs

\* part_002:119
WaitTimeout == config.Autocomplete.DebounceMs * 2 + SafetyMargin

\* part_002:87, fmt.Sprintf("%s:%s", ...)
DebounceKey(req) == req.ConversationID \o <<":">> \o req.SenderID

NoRequest == [ConversationID |-> <<>>, SenderID |-> <<>>, Input |-> <<>>, MaxSuggestions |-> 0]

NoResult == [kind |-> "none"]

ErrorResult(what) == [kind |-> "err", err |-> what]

Response(suggestions, context) ==
    [kind |-> "resp", Suggestions |-> suggestions, ContextUsed |-> context]

IdleCall ==
    [pc |-> "idle", req |-> NoRequest, existing |-> NoTimer, waitUntil |-> 0,
     gs |-> "none", ctx |-> <<>>, gsOut |-> NoResult, ret |-> NoResult]

IdleTimer == [state |-> "none", deadline |-> 0, cb |-> "none"]

\* the length test taken over bytes instead of runes
BelowTriggerLengthInBytes(req) == ByteLen(req.Input) < config.Autocomplete.MinTriggerLength

\* part_002:38
BelowTriggerLength(req) == RuneLen(req.Input) < config.Autocomplete.MinTriggerLength

\* a limit that ignores the request's max_suggestions
EffectiveMaxConfigured(req) == config.Autocomplete.SuggestionCount

\* part_002:57-60
EffectiveMax(req) ==
    IF req.MaxSuggestions > 0 THEN req.MaxSuggestions ELSE config.Autocomplete.SuggestionCount

\* part_002:68-70
LimitSuggestions(suggestions, maxSuggestions) ==
    IF Len(suggestions) > maxSuggestions THEN Prefix(suggestions, maxSuggestions)
    ELSE suggestions

\* what llm.Client.Complete may answer: an ordered list, or an error
SuggestionLists == {<<"s1">>, <<"s1", "s2", "s3">>}

CompletionAnswers ==
    {[ok |-> TRUE, list |-> l] : l \in SuggestionLists} \cup {[ok |-> FALSE, list |-> <<>>]}

\* the provider has not answered yet
NoAnswer == [ok |-> FALSE, list |-> <<"pending">>]

engineFrame == <<config, conversations, messages, saveVars, evalVars, provider, conn>>

\* a callback that sends to the channels of whichever call holds the entry of
\* the key at that moment
DeliveredToLatest(c, out) ==
    IF timers[c].cb = "run"
    THEN LET entry == debounceMap[DebounceKey(calls[c].req)]
             to == IF entry = NoTimer THEN c ELSE entry
         IN  /\ calls' = [calls EXCEPT ![c].gs = "done", ![c].ctx = <<>>]
             /\ timers' = [timers EXCEPT ![c].cb = "delete"]
             /\ IF out.kind = "err"
                THEN /\ errorChan' = [errorChan EXCEPT ![to] = Append(@, out)]
                     /\ UNCHANGED resultChan
                ELSE /\ resultChan' = [resultChan EXCEPT ![to] = Append(@, out)]
                     /\ UNCHANGED errorChan
    ELSE /\ calls' = [calls EXCEPT ![c].gs = "done", ![c].ctx = <<>>, ![c].gsOut = out]
         /\ UNCHANGED <<timers, resultChan, errorChan>>

\* a callback whose channels have no buffer: the send goes through only while
\* the caller is at its select, and blocks for good when the caller has left
DeliveredUnbuffered(c, out) ==
    IF timers[c].cb = "run" /\ calls[c].pc = "wait"
    THEN /\ calls' = [calls EXCEPT ![c].gs = "done", ![c].ctx = <<>>]
         /\ timers' = [timers EXCEPT ![c].cb = "delete"]
         /\ IF out.kind = "err"
            THEN /\ errorChan' = [errorChan EXCEPT ![c] = Append(@, out)]
                 /\ UNCHANGED resultChan
            ELSE /\ resultChan' = [resultChan EXCEPT ![c] = Append(@, out)]
                 /\ UNCHANGED errorChan
    ELSE /\ calls' = [calls EXCEPT ![c].gs = "done", ![c].ctx = <<>>, ![c].gsOut = out]
         /\ UNCHANGED <<timers, resultChan, errorChan>>

\* GetSuggestions returns `out`.  Inside a timer callback the result goes straight
\* into the call's buffered channel (part_002:103-107, a send that cannot block:
\* each channel has room for one value and is sent to once); a direct caller
\* picks it up from gsOut.
Delivered(c, out) ==
    IF timers[c].cb = "run"
    THEN /\ calls' = [calls EXCEPT ![c].gs = "done", ![c].ctx = <<>>]
         /\ timers' = [timers EXCEPT ![c].cb = "delete"]
         /\ IF out.kind = "err"
            THEN /\ errorChan' = [errorChan EXCEPT ![c] = Append(@, out)]
                 /\ UNCHANGED resultChan
            ELSE /\ resultChan' = [resultChan EXCEPT ![c] = Append(@, out)]
                 /\ UNCHANGED errorChan
    ELSE /\ calls' = [calls EXCEPT ![c].gs = "done", ![c].ctx = <<>>, ![c].gsOut = out]
         /\ UNCHANGED <<timers, resultChan, errorChan>>

\* part_002:36-62: GetSuggestions up to the call of the provider
GetSuggestionsBegin(c) ==
    /\ calls[c].gs = "start"
    /\ LET req == calls[c].req
           conversation == ConversationByExternalID(req.ConversationID)
       IN  IF BelowTriggerLength(req)
           THEN /\ Delivered(c, Response(<<>>, <<>>))
                /\ UNCHANGED <<summaries, styles, llmCalls, buildCalls>>
           ELSE IF conversation = NoRow
           THEN /\ Delivered(c, ErrorResult("conversation"))
                /\ UNCHANGED <<summaries, styles, llmCalls, buildCalls>>
           ELSE LET built == BuildContext(conversation, req.SenderID, req.Input)
                IN  /\ buildCalls' = Append(buildCalls, c)
                    /\ summaries' = SummariesAfterGetOrCreate(conversation)
                    /\ styles' = StylesAfterGetOrCreate(conversation, req.SenderID)
                    /\ IF built.ok
                       THEN /\ llmCalls' = Append(llmCalls,
                                                  [by |-> c, context |-> built.context,
                                                   input |-> req.Input,
                                                   answer |-> NoAnswer])
                            /\ calls' = [calls EXCEPT ![c].gs = "llm",
                                                      ![c].ctx = built.context]
                            /\ UNCHANGED <<timers, resultChan, errorChan>>
                       ELSE /\ llmCalls' = llmCalls
                            /\ Delivered(c, ErrorResult("context"))
    /\ UNCHANGED <<now, debounceMap>>
    /\ UNCHANGED engineFrame

\* part_002:62-81: the provider answers and GetSuggestions returns
CompleteReturns(c) ==
    /\ calls[c].gs = "llm"
    /\ \E answer \in CompletionAnswers :
          /\ Delivered(c, IF ~answer.ok THEN ErrorResult("llm")
                          ELSE Response(LimitSuggestions(answer.list,
                                                         EffectiveMax(calls[c].req)),
                                        calls[c].ctx))
          /\ llmCalls' = [i \in 1..Len(llmCalls) |->
                             IF llmCalls[i].by = c THEN [llmCalls[i] EXCEPT !.answer = answer]
                             ELSE llmCalls[i]]
    /\ UNCHANGED <<now, summaries, styles, debounceMap, buildCalls>>
    /\ UNCHANGED engineFrame

(***************************************************************************)
(* GetSuggestionsWithDebounce (part_002:85-122), one step per statement    *)
(***************************************************************************)
ConversationIDs == {<<"c">>, <<"z">>}

SenderIDs == {<<"a">>, <<"b">>}

Inputs == {<<"U4F60">>, <<"h", "i">>, <<"h", "i", "x">>}

\* the text being typed: the request of the c-th call carries its first c + 1 runes
Typed == <<"h", "i", "x", "y", "z">>

\* (the two senders are interchangeable, so the first call is made by "a")
DebounceRequests(c) ==
    {[ConversationID |-> <<"c">>, SenderID |-> s,
      Input |-> Prefix(Typed, Min(c + 1, Len(Typed))), MaxSuggestions |-> 0] :
        s \in IF c = 1 THEN {<<"a">>} ELSE SenderIDs}

\* (conversation, sender) pairs with identifiers that contain ':'
ColonPairs ==
    {[ConversationID |-> <<"c">>, SenderID |-> <<"a", ":", "b">>],
     [ConversationID |-> <<"c", ":", "a">>, SenderID |-> <<"b">>],
     [ConversationID |-> <<"c">>, SenderID |-> <<"a">>]}

PairRequests ==
    {[ConversationID |-> p.ConversationID, SenderID |-> p.SenderID,
      Input |-> Prefix(Typed, 3), MaxSuggestions |-> 0] : p \in ColonPairs}

DebounceKeys ==
    UNION {{DebounceKey(r) : r \in DebounceRequests(c)} : c \in Calls}
    \cup {DebounceKey(r) : r \in PairRequests}

\* calls are numbered in the order in which they are issued
Issued(c) == calls[c].pc # "idle"

NextToIssue(c) == ~Issued(c) /\ \A d \in Calls : d < c => Issued(d)

\* a Stop that cancels whatever state the timer is in
StopTimerAlways(t) == [t EXCEPT !.state = "stopped", !.deadline = 0]

\* time.Timer.Stop: prevents the firing of a timer that has not fired yet
StopTimer(t) ==
    IF t.state = "pending" THEN [t EXCEPT !.state = "stopped", !.deadline = 0] ELSE t

\* part_002:97-101: the timer time.AfterFunc returns
NewTimer == [state |-> "pending", deadline |-> now + DebounceDuration, cb |-> "none"]

\* part_002:85-90: a caller enters and loads the entry of its key; with no entry
\* it goes on to create its channels and its timer (97-101)
Enter(c, req) ==
    LET existing == debounceMap[DebounceKey(req)]
    IN  IF existing # NoTimer
        THEN /\ calls' = [calls EXCEPT ![c].pc = "stop", ![c].req = req,
                                       ![c].existing = existing]
             /\ UNCHANGED timers
        ELSE /\ calls' = [calls EXCEPT ![c].pc = "store", ![c].req = req]
             /\ timers' = [timers EXCEPT ![c] = NewTimer]

\* a client calls GetSuggestionsWithDebounce (over HTTP, or on a connection of
\* its own)
Call(c) ==
    /\ NextToIssue(c)
    /\ now + WaitTimeout <= MaxTime
    /\ \E req \in DebounceRequests(c) : Enter(c, req)
    /\ UNCHANGED <<now, summaries, styles, debounceMap, resultChan, errorChan,
                   llmCalls, buildCalls>>
    /\ UNCHANGED engineFrame

\* part_002:91-101: timer.Stop() on the entry that was loaded, then the channels
\* and the new timer
Stop(c) ==
    /\ calls[c].pc = "stop"
    /\ timers' = [timers EXCEPT ![calls[c].existing] = StopTimer(@), ![c] = NewTimer]
    /\ calls' = [calls EXCEPT ![c].pc = "store", ![c].existing = NoTimer]
    /\ UNCHANGED <<now, summaries, styles, debounceMap, resultChan, errorChan,
                   llmCalls, buildCalls>>
    /\ UNCHANGED engineFrame

\* part_002:111 and the entry of the select at 114-119 (time.After starts)
Store(c) ==
    /\ calls[c].pc = "store"
    /\ debounceMap' = [debounceMap EXCEPT ![DebounceKey(calls[c].req)] = c]
    /\ calls' = [calls EXCEPT ![c].pc = "wait", ![c].waitUntil = now + WaitTimeout]
    /\ UNCHANGED <<now, summaries, styles, timers, resultChan, errorChan, llmCalls,
                   buildCalls>>
    /\ UNCHANGED engineFrame

\* the runtime starts the callback of a timer whose time has come (part_002:101-102)
Fire(c) ==
    /\ timers[c].state = "pending"
    /\ now >= timers[c].deadline
    /\ timers' = [timers EXCEPT ![c].state = "fired", ![c].deadline = 0, ![c].cb = "run"]
    /\ calls' = [calls EXCEPT ![c].gs = "start"]
    /\ UNCHANGED <<now, summaries, styles, debounceMap, resultChan, errorChan,
                   llmCalls, buildCalls>>
    /\ UNCHANGED engineFrame

\* part_002:108, debounceMap.Delete(debounceKey)
CallbackDelete(c) ==
    /\ timers[c].cb = "delete"
    /\ debounceMap' = [debounceMap EXCEPT ![DebounceKey(calls[c].req)] = NoTimer]
    /\ timers' = [timers EXCEPT ![c].cb = "done"]
    /\ UNCHANGED <<now, summaries, styles, calls, resultChan, errorChan, llmCalls,
                   buildCalls>>
    /\ UNCHANGED engineFrame

\* part_002:115-116
ReceiveResult(c) ==
    /\ calls[c].pc = "wait"
    /\ resultChan[c] # <<>>
    /\ calls' = [calls EXCEPT ![c].pc = "returned",
                               ![c].ret = Head(resultChan[c])]
    /\ resultChan' = [resultChan EXCEPT ![c] = Tail(@)]
    /\ UNCHANGED <<now, summaries, styles, debounceMap, timers, errorChan, llmCalls,
                   buildCalls>>
    /\ UNCHANGED engineFrame

\* part_002:117-118
ReceiveError(c) ==
    /\ calls[c].pc = "wait"
    /\ errorChan[c] # <<>>
    /\ calls' = [calls EXCEPT ![c].pc = "returned",
                               ![c].ret = Head(errorChan[c])]
    /\ errorChan' = [errorChan EXCEPT ![c] = Tail(@)]
    /\ UNCHANGED <<now, summaries, styles, debounceMap, timers, resultChan, llmCalls,
                   buildCalls>>
    /\ UNCHANGED engineFrame

\* a select without the time.After case
WaitWithoutTimeout(c) ==
    /\ FALSE
    /\ UNCHANGED vars

\* part_002:119-120
WaitTimesOut(c) ==
    /\ calls[c].pc = "wait"
    /\ now >= calls[c].waitUntil
    /\ calls' = [calls EXCEPT ![c].pc = "returned",
                               ![c].ret = ErrorResult("timeout")]
    /\ UNCHANGED <<now, summaries, styles, debounceMap, timers, resultChan, errorChan,
                   llmCalls, buildCalls>>
    /\ UNCHANGED engineFrame

\* Time passes only while everybody waits: the statements of a call and of a
\* callback take no time on the scale of the clock (one tick is five seconds), and
\* a timer or a time.After whose time has come acts before the clock moves on.
TimerDue(c) == timers[c].state = "pending" /\ now >= timers[c].deadline

WaitDue(c) == calls[c].pc = "wait" /\ now >= calls[c].waitUntil

Running(c) ==
    \/ calls[c].pc \in {"stop", "store"}
    \/ calls[c].gs = "start"
    \/ calls[c].pc = "direct" /\ calls[c].gs = "done"
    \/ timers[c].cb = "delete"

AwaitsTime(c) ==
    \/ calls[c].pc = "idle" /\ now + 1 + WaitTimeout <= MaxTime
    \/ calls[c].pc = "wait"
    \/ timers[c].state = "pending"

Tick ==
    /\ now < MaxTime
    /\ \A c \in Calls : ~Running(c) /\ ~TimerDue(c) /\ ~WaitDue(c)
    /\ \E c \in Calls : AwaitsTime(c)
    /\ now' = now + 1
    /\ UNCHANGED <<summaries, styles, debounceMap, calls, timers, resultChan, errorChan,
                   llmCalls, buildCalls>>
    /\ UNCHANGED engineFrame

EngineConfig ==
    [Autocomplete |-> [MinTriggerLength |-> 2, SuggestionCount |-> 2,
                       DebounceMs |-> DebounceTicks],
     Context |-> [MaxContextTokens |-> 20, RecentMessagesCount |-> 2],
     Summary |-> [AutoUpdate |-> TRUE, UpdateThresholdMessages |-> 2,
                  UpdateThresholdHours |-> 1],
     Style |-> [Enabled |-> TRUE, UpdateThresholdMessages |-> 2],
     LLM |-> [Timeout |-> 2]]

Message(conversationID, senderID, content, sequence, createdAt) ==
    [ConversationID |-> conversationID, SenderID |-> senderID, Content |-> content,
     MessageType |-> "text", Sequence |-> sequence, CreatedAt |-> createdAt]

NoEval == [op |-> "none"]

Tasks == 1..Max(MaxSaves, MaxRefreshCalls)

NoSaveRequest == [ConversationID |-> <<>>, SenderID |-> <<>>, Content |-> <<>>, Sequence |-> 0]

NoLocal == [id |-> NoRow]

\* pc: where the goroutine stands; req: the SaveMessage request; conversation: the
\* conversation's primary key; msgs: the message list in hand; summary, style: the
\* row loaded into the local struct; gen: what GenerateSummary returned; before:
\* the summaries table as the caller of UpdateSummary found it; result: what the
\* caller was answered; message: the message row SaveMessage created (its key is
\* the message_id of the answer); failed: the calls of the background update
\* that returned an error (handler.go:159-171 logs or drops them);
\* styleRefreshedAt: the length of the message list with which the task's
\* UpdateStyle succeeded (0: it has not)
IdleTask ==
    [pc |-> "idle", kind |-> "none", req |-> NoSaveRequest, conversation |-> NoRow,
     msgs |-> <<>>, summary |-> NoLocal, style |-> NoLocal, gen |-> <<>>,
     before |-> <<>>, result |-> "none", message |-> NoLocal, failed |-> {},
     styleRefreshedAt |-> 0]

\* the invocations of the provider script that are followed one by one
NProviderCalls == 2

ProviderCalls == 1..NProviderCalls

\* pc: where the caller stands; action: "complete" (callPython) or
\* "generate_summary" (callPythonForSummary); script: the process of cmd.Run();
\* done: the channel of capacity 1 (llm.go:148, 195); result: what the caller
\* returned; startedAt, returnedAt: the clock at the call and at the return
IdleProviderCall ==
    [pc |-> "idle", action |-> "none", script |-> "none", done |-> <<>>,
     result |-> "none", startedAt |-> 0, returnedAt |-> 0]

\* inbox: the autocomplete messages sent and not yet read; sentAt: when each
\* message was sent; handling: the call handleMessage is in (0: readPump is at
\* ReadMessage); sent: the messages written back
IdleConnection == [inbox |-> <<>>, sentAt |-> <<>>, handling |-> 0, sent |-> <<>>]

InitEngineIdle ==
    /\ provider = [p \in ProviderCalls |-> IdleProviderCall]
    /\ conn = IdleConnection
    /\ debounceMap = [k \in DebounceKeys |-> NoTimer]
    /\ calls = [c \in Calls |-> IdleCall]
    /\ timers = [c \in Calls |-> IdleTimer]
    /\ resultChan = [c \in Calls |-> <<>>]
    /\ errorChan = [c \in Calls |-> <<>>]
    /\ llmCalls = <<>>
    /\ buildCalls = <<>>

InitSaveIdle ==
    /\ tasks = [k \in Tasks |-> IdleTask]
    /\ summaryCalls = <<>>

InitEvalIdle ==
    /\ evalIn = NoEval
    /\ evalOut = NoEval

InitDebounce ==
    /\ config = EngineConfig
    /\ now = 0
    /\ conversations = <<<<"c">>>>
    /\ messages = <<Message(1, <<"a">>, <<"h", "i">>, 1, 1)>>
    /\ summaries = <<>>
    /\ styles = <<>>
    /\ InitEngineIdle
    /\ InitSaveIdle
    /\ InitEvalIdle

\* every step of a call that is under way, of a timer and of the clock
DebounceSteps ==
    \/ \E c \in Calls : Stop(c)
    \/ \E c \in Calls : Store(c)
    \/ \E c \in Calls : Fire(c)
    \/ \E c \in Calls : GetSuggestionsBegin(c)
    \/ \E c \in Calls : CompleteReturns(c)
    \/ \E c \in Calls : CallbackDelete(c)
    \/ \E c \in Calls : ReceiveResult(c)
    \/ \E c \in Calls : ReceiveError(c)
    \/ \E c \in Calls : WaitTimesOut(c)
    \/ Tick

NextDebounce ==
    \/ \E c \in Calls : Call(c)
    \/ DebounceSteps

SpecDebounce == InitDebounce /\ [][NextDebounce]_vars

\* The steps that happen without anybody's leave: the Go scheduler runs a
\* goroutine that can take a step, the runtime fires a timer whose time has come,
\* and time passes.  Nothing obliges a client to issue a call, nor the completion
\* provider to answer.
ScheduledSteps ==
    \/ \E c \in Calls : Stop(c)
    \/ \E c \in Calls : Store(c)
    \/ \E c \in Calls : Fire(c)
    \/ \E c \in Calls : GetSuggestionsBegin(c)
    \/ \E c \in Calls : CallbackDelete(c)
    \/ \E c \in Calls : ReceiveResult(c)
    \/ \E c \in Calls : ReceiveError(c)
    \/ \E c \in Calls : WaitTimesOut(c)
    \/ Tick

\* as long as one of these steps can be taken, one of them is
FairDebounce == WF_vars(ScheduledSteps)

\* the clients issue no more than NFairCalls calls
NextDebounceFair ==
    \/ \E c \in 1..NFairCalls : Call(c)
    \/ DebounceSteps

SpecDebounceFair == InitDebounce /\ [][NextDebounceFair]_vars /\ FairDebounce

InDebounce(c) == calls[c].pc \in {"stop", "store", "wait"}

Returned(c) == calls[c].pc = "returned"

TimedOut(c) == Returned(c) /\ calls[c].ret = ErrorResult("timeout")

\* C3: every call of GetSuggestionsWithDebounce eventually returns, and what it
\* returns is the response, the error of GetSuggestions, or the timeout error; the
\* timeout error is returned only once 2 x debounce duration + 5 s have elapsed
\* since the call began to wait.
C3_EveryCallReturns ==
    /\ \A c \in Calls : InDebounce(c) ~> Returned(c)
    /\ [](\A c \in Calls :
            Returned(c) =>
               /\ \/ calls[c].ret.kind = "resp"
                  \/ calls[c].ret \in {ErrorResult("llm"), ErrorResult("context"),
                                       ErrorResult("conversation"), ErrorResult("timeout")}
               /\ TimedOut(c) =>
                     /\ now >= calls[c].waitUntil
                     /\ calls[c].waitUntil >=
                           config.Autocomplete.DebounceMs * 2 + SafetyMargin)

\* one call returned the timeout error after its timer was superseded, another
\* returned it while the completion provider still had not answered
C3_Witness ==
    \E c, d \in Calls :
        /\ TimedOut(c)
        /\ timers[c].state = "stopped"
        /\ TimedOut(d)
        /\ calls[d].gs = "llm"

\* when call c began to wait (it entered within the same tick)
IssuedAt(c) == calls[c].waitUntil - WaitTimeout

\* three calls for one key, entered within one debounce window, and everything
\* they set in motion has reached the provider or been cancelled
RapidBurstSettled ==
    /\ \A c \in Calls : calls[c].pc \in {"wait", "returned"}
    /\ \A c, d \in Calls :
          /\ DebounceKey(calls[c].req) = DebounceKey(calls[d].req)
          /\ IssuedAt(c) - IssuedAt(d) < DebounceDuration
    /\ \A c \in Calls : timers[c].state # "pending" /\ calls[c].gs # "start"

\* C1: three calls of GetSuggestionsWithDebounce for one key within one debounce
\* window make the completion provider be invoked exactly once, with the input of
\* the third request.
C1_ThreeCallsOneInvocation ==
    RapidBurstSettled =>
        /\ Len(llmCalls) = 1
        /\ llmCalls[1].input = calls[NCalls].req.Input

(***************************************************************************)
(* Handler.Complete (handler.go:36-51): GetSuggestions called directly     *)
(***************************************************************************)
DirectRequests ==
    {[ConversationID |-> cv, SenderID |-> <<"a">>, Input |-> i, MaxSuggestions |-> m] :
        cv \in ConversationIDs, i \in Inputs, m \in {0, 1}}

\* handler.go:43
DirectCall(c) ==
    /\ NextToIssue(c)
    /\ \E req \in DirectRequests :
          calls' = [calls EXCEPT ![c].pc = "direct", ![c].req = req, ![c].gs = "start"]
    /\ UNCHANGED <<now, summaries, styles, debounceMap, timers, resultChan, errorChan,
                   llmCalls, buildCalls>>
    /\ UNCHANGED engineFrame

\* handler.go:44-50: the handler answers with what GetSuggestions returned
DirectReturn(c) ==
    /\ calls[c].pc = "direct"
    /\ calls[c].gs = "done"
    /\ calls' = [calls EXCEPT ![c].pc = "returned", ![c].ret = calls[c].gsOut,
                               ![c].gsOut = NoResult]
    /\ UNCHANGED <<now, summaries, styles, debounceMap, timers, resultChan, errorChan,
                   llmCalls, buildCalls>>
    /\ UNCHANGED engineFrame

SuggestConfigs ==
    {[EngineConfig EXCEPT !.Autocomplete.MinTriggerLength = n] : n \in {2, 3}}

InitSuggest ==
    /\ config \in SuggestConfigs
    /\ now = 0
    /\ conversations = <<<<"c">>>>
    /\ messages = <<Message(1, <<"a">>, <<"h", "i">>, 1, 1)>>
    /\ summaries = <<>>
    /\ styles = <<>>
    /\ InitEngineIdle
    /\ InitSaveIdle
    /\ InitEvalIdle

NextSuggest ==
    \/ \E c \in Calls : DirectCall(c)
    \/ \E c \in Calls : GetSuggestionsBegin(c)
    \/ \E c \in Calls : CompleteReturns(c)
    \/ \E c \in Calls : DirectReturn(c)

SpecSuggest == InitSuggest /\ [][NextSuggest]_vars

\* an issued call whose input has fewer runes than the configured minimum
ShortInput(c) ==
    Issued(c) /\ Len(calls[c].req.Input) < config.Autocomplete.MinTriggerLength

InvokedProvider(c) == \E i \in 1..Len(llmCalls) : llmCalls[i].by = c

InvokedBuildContext(c) == \E i \in 1..Len(buildCalls) : buildCalls[i] = c

\* C2: a call of GetSuggestions whose input has fewer runes than MinTriggerLength
\* never invokes the context assembler or the completion provider, and returns,
\* without error, a response with an empty suggestion list.
C2_ShortInputSkipsProvider ==
    \A c \in Calls :
        ShortInput(c) =>
            /\ ~InvokedProvider(c)
            /\ ~InvokedBuildContext(c)
            /\ calls[c].gs # "llm"
            /\ calls[c].pc = "returned" =>
                  /\ calls[c].ret.kind = "resp"
                  /\ calls[c].ret.Suggestions = <<>>

\* a one-rune, three-byte input was answered while another call, with a long
\* enough input, went through to the provider
C2_Witness ==
    \E c, d \in Calls :
        /\ ShortInput(c)
        /\ ByteLen(calls[c].req.Input) >= config.Autocomplete.MinTriggerLength
        /\ calls[c].pc = "returned"
        /\ calls[c].ret.kind = "resp"
        /\ InvokedProvider(d)

(***************************************************************************)
(* The refresh policies: summary.Manager.ShouldUpdateSummary and           *)
(* style.Manager.ShouldUpdateStyle                                         *)
(***************************************************************************)
\* time.Hour on the scale of the clock (one tick is five seconds)
TicksPerHour == 720

\* the policy with both thresholds required
ShouldUpdateSummaryWhenBoth(summary, currentMessageCount) ==
    /\ config.Summary.AutoUpdate
    /\ currentMessageCount - summary.LastMessageCount
          >= config.Summary.UpdateThresholdMessages
    /\ now - summary.LastUpdatedAt >= config.Summary.UpdateThresholdHours * TicksPerHour

\* the policy with the count threshold to be exceeded
ShouldUpdateSummaryStrictly(summary, currentMessageCount) ==
    /\ config.Summary.AutoUpdate
    /\ \/ currentMessageCount - summary.LastMessageCount
             > config.Summary.UpdateThresholdMessages
       \/ now - summary.LastUpdatedAt >= config.Summary.UpdateThresholdHours * TicksPerHour

\* part_001:63-79
ShouldUpdateSummary(summary, currentMessageCount) ==
    IF ~config.Summary.AutoUpdate THEN FALSE
    ELSE IF currentMessageCount - summary.LastMessageCount
               >= config.Summary.UpdateThresholdMessages
    THEN TRUE
    ELSE IF now - summary.LastUpdatedAt >= config.Summary.UpdateThresholdHours * TicksPerHour
    THEN TRUE
    ELSE FALSE

\* the policy of the summary applied to a style row
ShouldUpdateStyleOrStale(style, currentMessageCount) ==
    /\ config.Style.Enabled
    /\ \/ currentMessageCount - style.LastMessageCount
             >= config.Style.UpdateThresholdMessages
       \/ now - style.LastUpdatedAt >= config.Summary.UpdateThresholdHours * TicksPerHour

\* style.go:67-78
ShouldUpdateStyle(style, currentMessageCount) ==
    IF ~config.Style.Enabled THEN FALSE
    ELSE IF currentMessageCount - style.LastMessageCount
               >= config.Style.UpdateThresholdMessages
    THEN TRUE
    ELSE FALSE

PolicyConfigs ==
    {[EngineConfig EXCEPT !.Summary = [AutoUpdate |-> on, UpdateThresholdMessages |-> m,
                                       UpdateThresholdHours |-> h],
                          !.Style = [Enabled |-> on, UpdateThresholdMessages |-> m]] :
        on \in BOOLEAN, m \in {2, 3}, h \in {1, 2}}

PolicyTimes ==
    {2 * TicksPerHour - 1, 2 * TicksPerHour, 3 * TicksPerHour, 4 * TicksPerHour}

PolicyStamps == {0, TicksPerHour, TicksPerHour + 1, 2 * TicksPerHour}

PolicyCounts == 0..4

PolicyInputs ==
    {[op |-> o, row |-> [LastMessageCount |-> l, LastUpdatedAt |-> t],
      currentMessageCount |-> n] :
        o \in {"ShouldUpdateSummary", "ShouldUpdateStyle"}, l \in {0, 2},
        t \in PolicyStamps, n \in PolicyCounts}

policyFrame == <<config, now, dbVars, engineVars, saveVars, evalIn, provider, conn>>

EvalShouldUpdateSummary ==
    /\ evalIn.op = "ShouldUpdateSummary"
    /\ evalOut = NoEval
    /\ evalOut' = [op |-> evalIn.op,
                   result |-> ShouldUpdateSummary(evalIn.row, evalIn.currentMessageCount)]
    /\ UNCHANGED policyFrame

EvalShouldUpdateStyle ==
    /\ evalIn.op = "ShouldUpdateStyle"
    /\ evalOut = NoEval
    /\ evalOut' = [op |-> evalIn.op,
                   result |-> ShouldUpdateStyle(evalIn.row, evalIn.currentMessageCount)]
    /\ UNCHANGED policyFrame

InitPolicy ==
    /\ config \in PolicyConfigs
    /\ now \in PolicyTimes
    /\ conversations = <<>>
    /\ messages = <<>>
    /\ summaries = <<>>
    /\ styles = <<>>
    /\ InitEngineIdle
    /\ InitSaveIdle
    /\ evalIn \in PolicyInputs
    /\ evalOut = NoEval

NextPolicy ==
    \/ EvalShouldUpdateSummary
    \/ EvalShouldUpdateStyle

SpecPolicy == InitPolicy /\ [][NextPolicy]_vars

CountDelta == evalIn.currentMessageCount - evalIn.row.LastMessageCount

Elapsed == now - evalIn.row.LastUpdatedAt

\* C4: ShouldUpdateSummary is false when auto-update is off; otherwise it is true
\* exactly when the count of messages since the last refresh has reached
\* UpdateThresholdMessages or the time since the last refresh has reached
\* UpdateThresholdHours hours.
C4_SummaryPolicy ==
    evalOut.op = "ShouldUpdateSummary" =>
        evalOut.result =
            (/\ config.Summary.AutoUpdate
             /\ \/ CountDelta >= config.Summary.UpdateThresholdMessages
                \/ Elapsed >= config.Summary.UpdateThresholdHours * TicksPerHour)

\* the time threshold alone, with no new message, made the policy answer true
C4_Witness ==
    /\ evalOut.op = "ShouldUpdateSummary"
    /\ evalOut.result
    /\ CountDelta = 0
    /\ Elapsed = config.Summary.UpdateThresholdHours * TicksPerHour

\* C5: ShouldUpdateStyle is false when style learning is off; otherwise it is true
\* exactly when the count of messages since the last refresh has reached
\* UpdateThresholdMessages, whatever the age of the profile and the time of day.
C5_StylePolicy ==
    evalOut.op = "ShouldUpdateStyle" =>
        evalOut.result =
            (config.Style.Enabled /\ CountDelta >= config.Style.UpdateThresholdMessages)

\* a profile many hours old with a count below the threshold was not refreshed
C5_Witness ==
    /\ evalOut.op = "ShouldUpdateStyle"
    /\ config.Style.Enabled
    /\ ~evalOut.result
    /\ CountDelta \in 0..(config.Style.UpdateThresholdMessages - 1)
    /\ Elapsed >= 4 * TicksPerHour

(***************************************************************************)
(* style.Manager.analyzeStyle and what it is made of (style.go:180-307)    *)
(***************************************************************************)
RECURSIVE SumOf(_)
SumOf(ns) == IF ns = <<>> THEN 0 ELSE Head(ns) + SumOf(Tail(ns))

\* how many elements of s are in the set
Count(s, set) == Cardinality({i \in 1..Len(s) : s[i] \in set})

\* strings.Split(s, sep) with a separator of one rune
RECURSIVE Split(_, _)
Split(s, sep) ==
    IF \A i \in 1..Len(s) : s[i] # sep THEN <<s>>
    ELSE LET at == CHOOSE i \in 1..Len(s) : s[i] = sep /\ \A j \in 1..(i - 1) : s[j] # sep
         IN  <<Prefix(s, at - 1)>> \o Split(Suffix(s, at), sep)

\* unicode.IsSpace, on the runes of the model
WhiteSpace == {" ", "\n", "\t", "U3000"}

\* strings.Fields
RECURSIVE Fields(_)
Fields(s) ==
    IF s = <<>> THEN <<>>
    ELSE IF Head(s) \in WhiteSpace THEN Fields(Tail(s))
    ELSE LET ends == {i \in 1..Len(s) : s[i] \in WhiteSpace}
             n == IF ends = {} THEN Len(s)
                  ELSE (CHOOSE i \in ends : \A j \in ends : i <= j) - 1
         IN  <<Prefix(s, n)>> \o Fields(Suffix(s, n))

SentenceEnd == "U3002"

\* style.go:210
PunctuationRunes == {"UFF0C", "U3002", "UFF01", "UFF1F", "U3001", "UFF1B", "UFF1A"}

\* style.go:195-200
TotalLength(userMessages) ==
    SumOf([i \in 1..Len(userMessages) |->
              LET sentences == Split(userMessages[i].Content, SentenceEnd)
              IN  SumOf([j \in 1..Len(sentences) |->
                            IF ByteLen(sentences[j]) > 0 THEN RuneLen(sentences[j]) ELSE 0])])

\* style.go:193
TotalChars(userMessages) ==
    SumOf([i \in 1..Len(userMessages) |-> RuneLen(userMessages[i].Content)])

\* style.go:202-206 (r >= 0x1F300 && r <= 0x1F9FF)
EmojiCount(userMessages) ==
    SumOf([i \in 1..Len(userMessages) |-> Count(userMessages[i].Content, EmojiRunes)])

\* style.go:208-213
PunctuationCounts(userMessages) ==
    LET Times(r) == SumOf([i \in 1..Len(userMessages) |->
                              Count(userMessages[i].Content, {r})])
    IN  [r \in {x \in PunctuationRunes : Times(x) > 0} |-> Times(r)]

\* style.go:215-221
WordFreq(userMessages) ==
    LET words == Concat([i \in 1..Len(userMessages) |-> Fields(userMessages[i].Content)])
        Times(w) == Count(words, {w})
    IN  [w \in {words[i] : i \in {j \in 1..Len(words) : RuneLen(words[j]) >= 2}} |->
            Times(w)]

\* style.go:225-228
SentenceCount(userMessages) ==
    SumOf([i \in 1..Len(userMessages) |->
              Len(Split(userMessages[i].Content, SentenceEnd))])

\* the orders in which `range wordFreq` may hand out the keys (style.go:291)
Orderings(S) ==
    {f \in [1..Cardinality(S) -> S] : \A i, j \in 1..Cardinality(S) : f[i] = f[j] => i = j}

\* style.go:295-304: the selection from position i of the slice on (positions
\* counted from 1)
RECURSIVE SelectTop(_, _, _, _)
SelectTop(words, wordFreq, i, n) ==
    IF ~(i <= Len(words) - 1 /\ i <= n) THEN {}
    ELSE LET maxIdx == CHOOSE j \in i..Len(words) :
                          /\ \A l \in i..Len(words) : wordFreq[words[l]] <= wordFreq[words[j]]
                          /\ \A l \in i..(j - 1) : wordFreq[words[l]] < wordFreq[words[j]]
             swapped == [words EXCEPT ![i] = words[maxIdx], ![maxIdx] = words[i]]
         IN  {swapped[i]} \cup SelectTop(swapped, wordFreq, i + 1, n)

\* style.go:280-307: every result the iteration order of the map allows
getTopN(wordFreq, n) ==
    {[w \in SelectTop(order, wordFreq, 1, n) |-> wordFreq[w]] :
        order \in Orderings(DOMAIN wordFreq)}

\* style.go:237
TopWords == 10

\* a classification with inclusive comparisons
ToneOfInclusive(sentenceLength, emojiUsage) ==
    IF sentenceLength.num <= 10 * sentenceLength.den /\ emojiUsage.num >= 2 * emojiUsage.den
    THEN "casual"
    ELSE IF sentenceLength.num >= 30 * sentenceLength.den THEN "formal"
    ELSE "friendly"

\* style.go:249-256, on the quotients the floats are computed from
ToneOf(sentenceLength, emojiUsage) ==
    IF sentenceLength.num < 10 * sentenceLength.den /\ emojiUsage.num > 2 * emojiUsage.den
    THEN "casual"
    ELSE IF sentenceLength.num > 30 * sentenceLength.den THEN "formal"
    ELSE "friendly"

\* style.go:180-259: the feature bundles analyzeStyle may return
analyzeStyle(userMessages) ==
    LET sentenceCount == SentenceCount(userMessages)
        totalChars == TotalChars(userMessages)
        sentenceLength == IF sentenceCount > 0
                          THEN [num |-> TotalLength(userMessages), den |-> sentenceCount]
                          ELSE [num |-> 0, den |-> 1]
        emojiUsage == IF totalChars > 0
                      THEN [num |-> EmojiCount(userMessages) * 100, den |-> totalChars]
                      ELSE [num |-> 0, den |-> 1]
    IN  {[Vocabulary |-> topWords, SentenceLength |-> sentenceLength,
          EmojiUsage |-> emojiUsage, Tone |-> ToneOf(sentenceLength, emojiUsage),
          Punctuation |-> PunctuationCounts(userMessages), CommonPhrases |-> <<>>] :
            topWords \in getTopN(WordFreq(userMessages), TopWords)}

\* the texts of style.go:265-273
DescriptionLabels ==
    [tone |-> <<"U8BED", "U6C14", "UFF1A">>,
     comma |-> <<"UFF0C">>,
     length |-> <<"U5E73", "U5747", "U53E5", "U5B50", "U957F", "U5EA6", "UFF1A">>,
     unit |-> <<"U5B57", "UFF0C">>,
     emoji |-> <<"U7ECF", "U5E38", "U4F7F", "U7528", "U8868", "U60C5", "U7B26", "U53F7",
                 "UFF0C">>,
     phrases |-> <<"U5E38", "U7528", "U77ED", "U8BED", "UFF1A">>,
     delimiter |-> <<"U3001">>]

\* style.go:262-277
generateDescription(features) ==
    DescriptionLabels.tone \o ToneRunes(features.Tone) \o DescriptionLabels.comma
    \o DescriptionLabels.length \o FormatOneDecimal(features.SentenceLength)
    \o DescriptionLabels.unit
    \o (IF features.EmojiUsage.num > 2 * features.EmojiUsage.den
        THEN DescriptionLabels.emoji
        ELSE <<>>)
    \o (IF Len(features.CommonPhrases) > 0
        THEN DescriptionLabels.phrases
             \o Join(Prefix(features.CommonPhrases, Min(3, Len(features.CommonPhrases))),
                     DescriptionLabels.delimiter)
        ELSE <<>>)

\* style.go:87-92
UserMessages(msgs, userID) == SelectSeq(msgs, LAMBDA m : m.SenderID = userID)

\* style.go:114-117: the row UpdateStyle saves
RefreshedStyle(style, features, userMessages) ==
    [style EXCEPT !.Features = features, !.Description = generateDescription(features),
                  !.LastMessageCount = Len(userMessages), !.LastUpdatedAt = now]

(***************************************************************************)
(* llm.Client.GenerateSummary (llm.go:92-123)                              *)
(***************************************************************************)
\* what the summarization script may answer; `failed` stands for a call that
\* ended without an answer (exit status, timeout, unreadable output)
SummaryResponses ==
    {[failed |-> FALSE, Prompt |-> <<"s">>, KeyInfo |-> <<>>, Error |-> <<>>],
     [failed |-> FALSE, Prompt |-> <<"s", "s">>, KeyInfo |-> <<<<"{", "}">>>>,
      Error |-> <<>>],
     [failed |-> FALSE, Prompt |-> <<"s">>, KeyInfo |-> <<>>, Error |-> <<"e">>],
     [failed |-> TRUE, Prompt |-> <<>>, KeyInfo |-> <<>>, Error |-> <<>>]}

NoResponse == [failed |-> FALSE, Prompt |-> <<>>, KeyInfo |-> <<>>, Error |-> <<"-">>]

\* llm.go:113-121: json.Marshal of the key information, each item standing for
\* its own JSON text
KeyInfoJSON(keyInfo) ==
    IF Len(keyInfo) > 0 THEN <<"[">> \o Join(keyInfo, <<",">>) \o <<"]">>
    ELSE <<"[", "]">>

\* a client that does not look at the answer's error field
GenerateSummaryUnchecked(resp) ==
    [ok |-> TRUE, prompt |-> resp.Prompt, keyInfo |-> KeyInfoJSON(resp.KeyInfo)]

\* llm.go:102-122
GenerateSummary(resp) ==
    IF resp.failed \/ resp.Error # <<>>
    THEN [ok |-> FALSE, prompt |-> <<>>, keyInfo |-> <<>>]
    ELSE [ok |-> TRUE, prompt |-> resp.Prompt, keyInfo |-> KeyInfoJSON(resp.KeyInfo)]

(***************************************************************************)
(* Handler.SaveMessage, Handler.updateSummaryAndStyle,                     *)
(* summary.Manager.UpdateSummary and style.Manager.UpdateStyle,            *)
(* one step per statement that reads or writes the store                   *)
(***************************************************************************)
saveFrame == <<config, now, engineVars, evalVars, provider, conn>>

Contents == {<<"h", "i">>, <<"o", "k", " ", "o", "k", "U3002", "U1F600">>}

\* (Sequence 0: the handler numbers the message by the clock)
SaveRequests ==
    {[ConversationID |-> <<"c">>, SenderID |-> u, Content |-> t, Sequence |-> 0] :
        u \in SenderIDs, t \in Contents}

\* tasks are numbered in the order in which they begin
NextTask(k) == tasks[k].pc = "idle" /\ \A j \in Tasks : j < k => tasks[j].pc # "idle"

\* nothing is under way
Quiet == \A k \in Tasks : tasks[k].pc \in {"idle", "done", "returned"}

\* handler.go:54-77: the request is bound and the conversation looked up
SaveMessage(k) ==
    /\ NextTask(k)
    /\ \E req \in SaveRequests :
          LET conversation == ConversationByExternalID(req.ConversationID)
          IN  tasks' = [tasks EXCEPT ![k].kind = "save", ![k].req = req,
                                     ![k].conversation = conversation,
                                     ![k].pc = IF conversation = NoRow
                                               THEN "createConversation"
                                               ELSE "createMessage"]
    /\ UNCHANGED <<dbVars, summaryCalls>>
    /\ UNCHANGED saveFrame

\* handler.go:65-73: Create on a table with a unique index on conversation_id
CreateConversation(k) ==
    /\ tasks[k].pc = "createConversation"
    /\ IF ConversationByExternalID(tasks[k].req.ConversationID) # NoRow
       THEN /\ tasks' = [tasks EXCEPT ![k].pc = "returned", ![k].result = "error"]
            /\ UNCHANGED conversations
       ELSE /\ conversations' = Append(conversations, tasks[k].req.ConversationID)
            /\ tasks' = [tasks EXCEPT ![k].pc = "createMessage",
                                      ![k].conversation = Len(conversations) + 1]
    /\ UNCHANGED <<messages, summaries, styles, summaryCalls>>
    /\ UNCHANGED saveFrame

\* handler.go:80-92
NewMessage(k) ==
    Message(tasks[k].conversation, tasks[k].req.SenderID, tasks[k].req.Content,
            IF tasks[k].req.Sequence = 0 THEN UnixNano ELSE tasks[k].req.Sequence,
            now)

\* a handler that answers only when the background update has finished
CreateMessageAwaitingRefresh(k) ==
    /\ tasks[k].pc = "createMessage"
    /\ messages' = Append(messages, NewMessage(k))
    /\ tasks' = [tasks EXCEPT ![k].pc = "findMessages",
                              ![k].message = [id |-> Len(messages) + 1,
                                              row |-> NewMessage(k)]]
    /\ UNCHANGED <<conversations, summaries, styles, summaryCalls>>
    /\ UNCHANGED saveFrame

\* handler.go:79-109: the message is stored, the background goroutine started and
\* the request answered
CreateMessage(k) ==
    /\ tasks[k].pc = "createMessage"
    /\ messages' = Append(messages, NewMessage(k))
    /\ tasks' = [tasks EXCEPT ![k].pc = "findMessages", ![k].result = "ok",
                              ![k].message = [id |-> Len(messages) + 1,
                                              row |-> NewMessage(k)]]
    /\ UNCHANGED <<conversations, summaries, styles, summaryCalls>>
    /\ UNCHANGED saveFrame

\* handler.go:150-156
FindMessages(k) ==
    /\ tasks[k].pc = "findMessages"
    /\ tasks' = [tasks EXCEPT ![k].pc = "getSummary",
                              ![k].msgs = AllMessages(tasks[k].conversation)]
    /\ UNCHANGED <<dbVars, summaryCalls>>
    /\ UNCHANGED saveFrame

Local(table, id) == [id |-> id, row |-> table[id]]

\* UpdateSummary has returned `result` (handler.go:161-163 goes on to the style)
AfterUpdateSummary(task, result) ==
    IF task.kind = "update"
    THEN [task EXCEPT !.pc = "returned", !.result = result, !.summary = NoLocal]
    ELSE [task EXCEPT !.pc = "getStyle", !.summary = NoLocal, !.gen = <<>>,
                      !.failed = IF result = "error" THEN @ \cup {"UpdateSummary"} ELSE @]

\* GetOrCreateSummary has returned the row `local`: to handler.go:160, or to
\* part_001:83-89, where the provider is called
WithSummary(k, local) ==
    IF tasks[k].pc \in {"getSummary", "createSummary"}
    THEN /\ tasks' = [tasks EXCEPT ![k].pc =
                         IF ShouldUpdateSummary(local.row, Len(tasks[k].msgs))
                         THEN "updateSummary" ELSE "getStyle"]
         /\ UNCHANGED summaryCalls
    ELSE /\ tasks' = [tasks EXCEPT ![k].pc = "generate", ![k].summary = local]
         /\ summaryCalls' = Append(summaryCalls,
                                   [by |-> k, messages |-> tasks[k].msgs,
                                    existing |-> local.row, response |-> NoResponse])

\* GetOrCreateSummary has returned an error
WithoutSummary(k) ==
    /\ tasks' = [tasks EXCEPT ![k] =
                    IF tasks[k].pc = "createSummary"
                    THEN [@ EXCEPT !.pc = "getStyle",
                                   !.failed = @ \cup {"GetOrCreateSummary"}]
                    ELSE AfterUpdateSummary([@ EXCEPT !.failed =
                                                @ \cup {"GetOrCreateSummary"}], "error")]
    /\ UNCHANGED summaryCalls

\* part_001:37-41
GetOrCreateSummarySelect(k) ==
    /\ tasks[k].pc \in {"getSummary", "updateSummary"}
    /\ LET id == SummaryRowOf(tasks[k].conversation)
       IN  IF id = NoRow
           THEN /\ tasks' = [tasks EXCEPT ![k].pc = IF tasks[k].pc = "getSummary"
                                                    THEN "createSummary"
                                                    ELSE "createForUpdate"]
                /\ UNCHANGED summaryCalls
           ELSE WithSummary(k, Local(summaries, id))
    /\ UNCHANGED dbVars
    /\ UNCHANGED saveFrame

\* part_001:46-59: Create on a table with a unique index on conversation_id
GetOrCreateSummaryCreate(k) ==
    /\ tasks[k].pc \in {"createSummary", "createForUpdate"}
    /\ IF SummaryRowOf(tasks[k].conversation) # NoRow
       THEN /\ WithoutSummary(k)
            /\ UNCHANGED summaries
       ELSE /\ summaries' = Append(summaries, NewSummary(tasks[k].conversation))
            /\ WithSummary(k, [id |-> Len(summaries) + 1,
                               row |-> NewSummary(tasks[k].conversation)])
    /\ UNCHANGED <<conversations, messages, styles>>
    /\ UNCHANGED saveFrame

\* part_001:88-92: the provider answers
GenerateSummaryReturns(k) ==
    /\ tasks[k].pc = "generate"
    /\ \E resp \in SummaryResponses :
          /\ summaryCalls' =
                [summaryCalls EXCEPT ![Len(summaryCalls) + 1 -
                    (CHOOSE d \in 1..Len(summaryCalls) :
                        /\ summaryCalls[Len(summaryCalls) + 1 - d].by = k
                        /\ \A e \in 1..(d - 1) :
                              summaryCalls[Len(summaryCalls) + 1 - e].by # k)].response = resp]
          /\ tasks' = [tasks EXCEPT ![k] =
                          IF GenerateSummary(resp).ok
                          THEN [@ EXCEPT !.pc = "saveSummary", !.gen = GenerateSummary(resp)]
                          ELSE AfterUpdateSummary(@, "error")]
    /\ UNCHANGED dbVars
    /\ UNCHANGED saveFrame

\* a refresh that takes the message count from the store
RefreshedSummaryCountingStore(summary, gen, msgs) ==
    [summary EXCEPT !.Prompt = gen.prompt, !.KeyInfo = gen.keyInfo,
                    !.LastMessageCount = Len(AllMessages(summary.ConversationID)),
                    !.LastUpdatedAt = now, !.Version = summary.Version + 1]

\* part_001:95-99
RefreshedSummary(summary, gen, msgs) ==
    [summary EXCEPT !.Prompt = gen.prompt, !.KeyInfo = gen.keyInfo,
                    !.LastMessageCount = Len(msgs), !.LastUpdatedAt = now,
                    !.Version = summary.Version + 1]

\* part_001:95-110: db.Save writes every column of the row with the struct's key
SaveSummary(k) ==
    /\ tasks[k].pc = "saveSummary"
    /\ summaries' = [summaries EXCEPT ![tasks[k].summary.id] =
                        RefreshedSummary(tasks[k].summary.row, tasks[k].gen, tasks[k].msgs)]
    /\ tasks' = [tasks EXCEPT ![k] = AfterUpdateSummary(@, "ok")]
    /\ UNCHANGED <<conversations, messages, styles, summaryCalls>>
    /\ UNCHANGED saveFrame

\* GetOrCreateStyle has returned the row `local`: to handler.go:167-168 and, when
\* the policy says so, into UpdateStyle (style.go:81-98); or to style.go:109-112
WithStyle(k, local) ==
    IF tasks[k].pc \in {"getStyle", "createStyle"}
    THEN tasks' = [tasks EXCEPT ![k].pc =
                      IF /\ ShouldUpdateStyle(local.row, Len(tasks[k].msgs))
                         /\ config.Style.Enabled
                         /\ Len(UserMessages(tasks[k].msgs, tasks[k].req.SenderID)) # 0
                      THEN "updateStyle" ELSE "done",
                                ![k].msgs = IF /\ ShouldUpdateStyle(local.row, Len(tasks[k].msgs))
                                               /\ config.Style.Enabled
                                            THEN tasks[k].msgs ELSE <<>>]
    ELSE tasks' = [tasks EXCEPT ![k].pc = "saveStyle", ![k].style = local]

\* style.go:41-45
GetOrCreateStyleSelect(k) ==
    /\ tasks[k].pc \in {"getStyle", "updateStyle"}
    /\ LET id == StyleRowOf(tasks[k].conversation, tasks[k].req.SenderID)
       IN  IF id = NoRow
           THEN tasks' = [tasks EXCEPT ![k].pc = IF tasks[k].pc = "getStyle"
                                                 THEN "createStyle"
                                                 ELSE "createStyleForUpdate"]
           ELSE WithStyle(k, Local(styles, id))
    /\ UNCHANGED <<dbVars, summaryCalls>>
    /\ UNCHANGED saveFrame

\* style.go:50-63: Create on a table with no unique index
GetOrCreateStyleCreate(k) ==
    /\ tasks[k].pc \in {"createStyle", "createStyleForUpdate"}
    /\ styles' = Append(styles, NewStyle(tasks[k].conversation, tasks[k].req.SenderID))
    /\ WithStyle(k, [id |-> Len(styles) + 1,
                     row |-> NewStyle(tasks[k].conversation, tasks[k].req.SenderID)])
    /\ UNCHANGED <<conversations, messages, summaries, summaryCalls>>
    /\ UNCHANGED saveFrame

\* style.go:99-120: the analysis of the user's messages, and db.Save
SaveStyle(k) ==
    /\ tasks[k].pc = "saveStyle"
    /\ LET userMessages == UserMessages(tasks[k].msgs, tasks[k].req.SenderID)
       IN  \E features \in analyzeStyle(userMessages) :
              styles' = [styles EXCEPT ![tasks[k].style.id] =
                            RefreshedStyle(tasks[k].style.row, features, userMessages)]
    /\ tasks' = [tasks EXCEPT ![k].pc = "done", ![k].style = NoLocal, ![k].msgs = <<>>,
                              ![k].styleRefreshedAt = Len(tasks[k].msgs)]
    /\ UNCHANGED <<conversations, messages, summaries, summaryCalls>>
    /\ UNCHANGED saveFrame

\* part_001:82: UpdateSummary called on its own, with a message list of the
\* caller's choosing
UpdateSummary(k) ==
    /\ NextTask(k)
    /\ \E conversationID \in 1..Len(conversations) :
          \E n \in 0..Len(AllMessages(conversationID)) :
             tasks' = [tasks EXCEPT ![k].kind = "update", ![k].pc = "updateSummary",
                                    ![k].conversation = conversationID,
                                    ![k].msgs = Prefix(AllMessages(conversationID), n),
                                    ![k].before = summaries]
    /\ UNCHANGED <<dbVars, summaryCalls>>
    /\ UNCHANGED saveFrame

SaveConfigs ==
    {[EngineConfig EXCEPT !.Summary.UpdateThresholdMessages = t] :
        t \in (MaxSaves - 2)..(MaxSaves - 1)}

InitSave ==
    /\ config \in SaveConfigs
    /\ now = 0
    /\ conversations = <<>>
    /\ messages = <<>>
    /\ summaries = <<>>
    /\ styles = <<>>
    /\ InitEngineIdle
    /\ InitSaveIdle
    /\ InitEvalIdle

\* the steps of a task that is under way
TaskSteps ==
    \/ \E k \in Tasks : CreateConversation(k)
    \/ \E k \in Tasks : CreateMessage(k)
    \/ \E k \in Tasks : FindMessages(k)
    \/ \E k \in Tasks : GetOrCreateSummarySelect(k)
    \/ \E k \in Tasks : GetOrCreateSummaryCreate(k)
    \/ \E k \in Tasks : GenerateSummaryReturns(k)
    \/ \E k \in Tasks : SaveSummary(k)
    \/ \E k \in Tasks : GetOrCreateStyleSelect(k)
    \/ \E k \in Tasks : GetOrCreateStyleCreate(k)
    \/ \E k \in Tasks : SaveStyle(k)

\* messages saved one after the other: a request arrives when the background
\* goroutine of the one before has finished
NextSave ==
    \/ \E k \in 1..MaxSaves : Quiet /\ SaveMessage(k)
    \/ TaskSteps

SpecSave == InitSave /\ [][NextSave]_vars

\* requests served at once: gin runs every request in a goroutine of its own,
\* and the background updates are goroutines too (handler.go:104)
MaxConcurrentSaves == 2

NextSaveConcurrent ==
    \/ \E k \in 1..MaxConcurrentSaves : SaveMessage(k)
    \/ TaskSteps

\* thresholds that the first save, or only the second, reaches
ConcurrentConfigs ==
    {[EngineConfig EXCEPT !.Summary.UpdateThresholdMessages = t,
                          !.Style.UpdateThresholdMessages = t] :
        t \in 1..MaxConcurrentSaves}

InitSaveConcurrent ==
    /\ config \in ConcurrentConfigs
    /\ now = 0
    /\ conversations = <<>>
    /\ messages = <<>>
    /\ summaries = <<>>
    /\ styles = <<>>
    /\ InitEngineIdle
    /\ InitSaveIdle
    /\ InitEvalIdle

SpecSaveConcurrent == InitSaveConcurrent /\ [][NextSaveConcurrent]_vars

Finished(k) == tasks[k].pc \in {"done", "returned"}

SavesDone == Cardinality({k \in Tasks : tasks[k].kind = "save" /\ Finished(k)})

\* every answer of the summarization provider so far was a summary
ProviderSucceeded ==
    \A i \in 1..Len(summaryCalls) :
        ~summaryCalls[i].response.failed /\ summaryCalls[i].response.Error = <<>>

Threshold == config.Summary.UpdateThresholdMessages

\* C6 as it is written, on the scale of the model: once Threshold + 1 messages have
\* been saved to one conversation, the last save has triggered a refresh that was
\* given all Threshold + 1 messages, and the stored summary has
\* LastMessageCount = Threshold + 1 and a version one higher than before.
C6_RefreshOnSavePastThreshold ==
    (Quiet /\ ProviderSucceeded /\ SavesDone = Threshold + 1) =>
        /\ summaryCalls # <<>>
        /\ summaryCalls[Len(summaryCalls)].by = Threshold + 1
        /\ Len(summaryCalls[Len(summaryCalls)].messages) = Threshold + 1
        /\ summaries[1].LastMessageCount = Threshold + 1
        /\ summaries[1].Version = summaryCalls[Len(summaryCalls)].existing.Version + 1

\* C6 (amended): with messages saved one after the other to a new conversation, a
\* provider that succeeds and the hour threshold not reached, it is the save that
\* brings the count to a multiple of the threshold that triggers a refresh: the
\* j-th refresh is triggered by save number j x Threshold, is given exactly the
\* j x Threshold messages stored and the summary of version j, and leaves
\* LastMessageCount = j x Threshold and version j + 1; the save after it (number
\* Threshold + 1) triggers none.
C6_RefreshOnSaveReachingThreshold ==
    (Quiet /\ ProviderSucceeded /\ SavesDone >= 1) =>
        LET refreshes == SavesDone \div Threshold
        IN  /\ Len(summaryCalls) = refreshes
            /\ \A j \in 1..refreshes :
                  /\ summaryCalls[j].by = j * Threshold
                  /\ summaryCalls[j].messages = Prefix(AllMessages(1), j * Threshold)
                  /\ summaryCalls[j].existing.Version = j
                  /\ summaryCalls[j].existing.LastMessageCount = (j - 1) * Threshold
            /\ Len(summaries) = 1
            /\ summaries[1].LastMessageCount = refreshes * Threshold
            /\ summaries[1].Version = 1 + refreshes

\* Threshold + 1 messages are saved, and the only refresh was the one that save
\* number Threshold triggered
C6_Witness ==
    /\ Quiet
    /\ ProviderSucceeded
    /\ SavesDone = Threshold + 1
    /\ Len(summaryCalls) = 1
    /\ summaryCalls[1].by = Threshold
    /\ Len(summaryCalls[1].messages) = Threshold
    /\ summaries[1].LastMessageCount = Threshold
    /\ summaries[1].Version = 2

\* task k stored a message
Stored(k) == tasks[k].kind = "save" /\ tasks[k].message # NoLocal

\* the background update of task k met a failure: the provider's, or a call's
RefreshFailed(k) ==
    \/ tasks[k].failed # {}
    \/ \E i \in 1..Len(summaryCalls) :
          summaryCalls[i].by = k /\ ~GenerateSummary(summaryCalls[i].response).ok

\* C14: once SaveMessage has stored its message it has answered success, at
\* the same step as it starts the background update (so without waiting for
\* it), and the message stays in the store as it was written, at every stage
\* of the update, whether the update succeeds, fails or stands still.
C14_SaveUnaffectedByRefresh ==
    \A k \in Tasks :
        Stored(k) =>
            /\ tasks[k].result = "ok"
            /\ tasks[k].message.id \in 1..Len(messages)
            /\ messages[tasks[k].message.id] = tasks[k].message.row
            /\ tasks[k].message.row.Content = tasks[k].req.Content
            /\ tasks[k].message.row.SenderID = tasks[k].req.SenderID
            /\ tasks[k].message.row.ConversationID
                   = ConversationByExternalID(tasks[k].req.ConversationID)

\* the provider failed in the update that a save started, the update went on
\* to its end, and the save's answer and message are as they were
C14_Witness ==
    \E k \in Tasks :
        /\ Stored(k)
        /\ RefreshFailed(k)
        /\ tasks[k].pc = "done"
        /\ tasks[k].result = "ok"
        /\ messages[tasks[k].message.id] = tasks[k].message.row

\* the handler of task k has answered its request
Answered(k) ==
    /\ tasks[k].kind = "save"
    /\ tasks[k].pc \notin {"idle", "createConversation", "createMessage"}

ConversationsOf(externalID) ==
    {i \in 1..Len(conversations) : conversations[i] = externalID}

\* C15: every SaveMessage request that was answered has stored its message in
\* the one conversation of its external identifier and was answered success,
\* under every interleaving of the requests; no external identifier has two
\* conversations.
C15_EverySaveStores ==
    /\ \A k \in Tasks :
           Answered(k) =>
               /\ tasks[k].result = "ok"
               /\ Stored(k)
               /\ messages[tasks[k].message.id].ConversationID
                      = ConversationByExternalID(tasks[k].req.ConversationID)
    /\ \A k \in Tasks :
           tasks[k].kind = "save" =>
               Cardinality(ConversationsOf(tasks[k].req.ConversationID)) <= 1

SummariesOf(conversationID) ==
    {i \in 1..Len(summaries) : summaries[i].ConversationID = conversationID}

StylesOf(conversationID, userID) ==
    {i \in 1..Len(styles) :
        styles[i].ConversationID = conversationID /\ styles[i].UserID = userID}

\* C16: no conversation has two Summary records, and no call of
\* GetOrCreateSummary (made by the background update, directly or inside
\* UpdateSummary) has returned an error, the store being healthy.
C16_OneSummaryEveryCallSucceeds ==
    /\ \A c \in 1..Len(conversations) : Cardinality(SummariesOf(c)) <= 1
    /\ \A k \in Tasks : "GetOrCreateSummary" \notin tasks[k].failed

\* C17: no (conversation, sender) pair has two Style records.
C17_OneStylePerPair ==
    \A c \in 1..Len(conversations) :
        \A u \in SenderIDs : Cardinality(StylesOf(c, u)) <= 1

(***************************************************************************)
(* UpdateSummary called on its own                                         *)
(***************************************************************************)
StoredSummaries ==
    {<<>>}
    \cup {<<[ConversationID |-> 1, Prompt |-> <<"o", "l", "d">>, KeyInfo |-> <<"[", "]">>,
             LastMessageCount |-> 1, LastUpdatedAt |-> 0, Version |-> v]>> : v \in {1, 3}}

InitRefresh ==
    /\ config = EngineConfig
    /\ now \in {1, 2}
    /\ conversations = <<<<"c">>>>
    /\ messages = <<Message(1, <<"a">>, <<"h", "i">>, 1, 0),
                    Message(1, <<"b">>, <<"o", "k">>, 2, 0)>>
    /\ summaries \in StoredSummaries
    /\ styles = <<>>
    /\ InitEngineIdle
    /\ InitSaveIdle
    /\ InitEvalIdle

\* one call at a time
NextRefresh ==
    \/ \E k \in 1..MaxRefreshCalls : Quiet /\ UpdateSummary(k)
    \/ \E k \in Tasks : GetOrCreateSummarySelect(k)
    \/ \E k \in Tasks : GetOrCreateSummaryCreate(k)
    \/ \E k \in Tasks : GenerateSummaryReturns(k)
    \/ \E k \in Tasks : SaveSummary(k)

SpecRefresh == InitRefresh /\ [][NextRefresh]_vars

\* the call of UpdateSummary made last
LatestUpdate(k) ==
    /\ tasks[k].kind = "update"
    /\ \A j \in Tasks : j > k => tasks[j].pc = "idle"

\* the summary the caller of k would have found stored for the conversation
StoredBefore(k) ==
    LET found == {i \in 1..Len(tasks[k].before) :
                     tasks[k].before[i].ConversationID = tasks[k].conversation}
    IN  IF found = {} THEN <<>> ELSE <<tasks[k].before[CHOOSE i \in found : TRUE]>>

\* the provider call made on behalf of k, and its answer
ProviderCallOf(k) == CHOOSE i \in 1..Len(summaryCalls) : summaryCalls[i].by = k

ProviderFailed(k) ==
    /\ \E i \in 1..Len(summaryCalls) : summaryCalls[i].by = k
    /\ \/ summaryCalls[ProviderCallOf(k)].response.failed
       \/ summaryCalls[ProviderCallOf(k)].response.Error # <<>>

StoredNow(k) == summaries[SummaryRowOf(tasks[k].conversation)]

\* C7: a call of UpdateSummary on its own that succeeds has called the provider
\* with the message list it was given and the summary stored at the time, and
\* leaves the row with the prompt and the key information the provider returned,
\* LastMessageCount = the length of the list, LastUpdatedAt = now and a version one
\* higher than the stored one (2 when the row was created by the call).
C7_RefreshStoresResult ==
    \A k \in Tasks :
        (LatestUpdate(k) /\ tasks[k].pc = "returned" /\ tasks[k].result = "ok") =>
            LET call == summaryCalls[ProviderCallOf(k)]
                before == StoredBefore(k)
            IN  /\ call.messages = tasks[k].msgs
                /\ before # <<>> => call.existing = before[1]
                /\ before = <<>> =>
                      /\ call.existing.Prompt = <<>>
                      /\ call.existing.LastMessageCount = 0
                      /\ call.existing.Version = 1
                /\ StoredNow(k).Prompt = call.response.Prompt
                /\ StoredNow(k).KeyInfo = KeyInfoJSON(call.response.KeyInfo)
                /\ StoredNow(k).LastMessageCount = Len(tasks[k].msgs)
                /\ StoredNow(k).LastUpdatedAt = now
                /\ StoredNow(k).Version = call.existing.Version + 1
                /\ Len(summaries) = Max(Len(tasks[k].before), 1)

\* a refresh with one of the two stored messages and a provider that returned
\* key information replaced a stored summary of version 3
C7_Witness ==
    \E k \in Tasks :
        /\ LatestUpdate(k)
        /\ tasks[k].pc = "returned"
        /\ tasks[k].result = "ok"
        /\ Len(tasks[k].msgs) = 1
        /\ StoredBefore(k) # <<>>
        /\ StoredBefore(k)[1].Version = 3
        /\ StoredNow(k).Version = 4
        /\ StoredNow(k).KeyInfo = <<"[", "{", "}", "]">>
        /\ StoredNow(k).LastMessageCount = 1

\* C8 as it is written: when the provider fails, UpdateSummary returns an error
\* and the summaries table is exactly as it was before the call, also when the
\* conversation had no summary.
C8_ProviderErrorLeavesStore ==
    \A k \in Tasks :
        (LatestUpdate(k) /\ tasks[k].pc = "returned" /\ ProviderFailed(k)) =>
            /\ tasks[k].result = "error"
            /\ summaries = tasks[k].before

\* C8 (amended): when the provider fails, UpdateSummary returns an error and a
\* summary that was stored before the call is unchanged in every field; when the
\* conversation had none, the call leaves the row GetOrCreateSummary created
\* before the provider was asked (empty prompt, "[]", LastMessageCount 0,
\* version 1), and nothing of the provider's answer is stored.
C8_ProviderErrorKeepsSummary ==
    \A k \in Tasks :
        (LatestUpdate(k) /\ tasks[k].pc = "returned" /\ ProviderFailed(k)) =>
            /\ tasks[k].result = "error"
            /\ StoredBefore(k) # <<>> => summaries = tasks[k].before
            /\ StoredBefore(k) = <<>> =>
                  /\ summaries = Append(tasks[k].before, StoredNow(k))
                  /\ StoredNow(k).Prompt = <<>>
                  /\ StoredNow(k).KeyInfo = <<"[", "]">>
                  /\ StoredNow(k).LastMessageCount = 0
                  /\ StoredNow(k).Version = 1

\* the provider answered with an error for a conversation that had no summary,
\* and the call left the empty row behind
C8_Witness ==
    \E k \in Tasks :
        /\ LatestUpdate(k)
        /\ tasks[k].pc = "returned"
        /\ tasks[k].result = "error"
        /\ summaryCalls[ProviderCallOf(k)].response.Error # <<>>
        /\ tasks[k].before = <<>>
        /\ Len(summaries) = 1
        /\ summaries[1].Version = 1

(***************************************************************************)
(* BuildContext and truncateContext applied to drawn stores and texts      *)
(***************************************************************************)
LongText == 120

SummaryPrompts == {<<>>, <<"o", "l", "d">>, Fill("s", LongText)}

ContextInputs == {<<"h", "i">>, Fill("x", LongText \div 4)}

LearnedFeatures ==
    [Vocabulary |-> (<<"o", "k">> :> 2), SentenceLength |-> [num |-> 7, den |-> 2],
     EmojiUsage |-> [num |-> 0, den |-> 7], Tone |-> "friendly",
     Punctuation |-> <<>>, CommonPhrases |-> <<>>]

ContextStyles ==
    {<<>>,
     <<[ConversationID |-> 1, UserID |-> <<"a">>, Features |-> LearnedFeatures,
        Description |-> <<>>, LastMessageCount |-> 2, LastUpdatedAt |-> 0]>>}

ContextSummaries ==
    {<<>>}
    \cup {<<[ConversationID |-> 1, Prompt |-> t, KeyInfo |-> <<"[", "]">>,
             LastMessageCount |-> 2, LastUpdatedAt |-> 0, Version |-> 2]>> :
            t \in SummaryPrompts}

ContextMessages ==
    {<<>>,
     <<Message(1, <<"a">>, <<"h", "i">>, 1, 0), Message(1, <<"b">>, <<"o", "k">>, 2, 0)>>,
     <<Message(1, <<"a">>, Fill("y", LongText), 1, 0),
       Message(1, <<"b">>, <<"o", "k">>, 2, 0)>>}

ContextBudgets == {4, 20, 36, 60}

ContextConfigs ==
    {[EngineConfig EXCEPT !.Context.MaxContextTokens = t] : t \in ContextBudgets}

\* context.go:62-73: the sections written before the history section
LeadingSections(summaryPrompt, stylePrompt) ==
    (IF summaryPrompt # <<>> THEN SummaryHeader \o summaryPrompt \o <<"\n", "\n">> ELSE <<>>)
    \o (IF stylePrompt # <<>> THEN StyleHeader \o stylePrompt \o <<"\n", "\n">> ELSE <<>>)

StylePrompts == {<<>>, RenderStylePrompt(LearnedFeatures)}

\* texts BuildContext composes, and lengths around theirs and around the
\* length of their leading sections plus the reserve
TruncationInputs ==
    UNION {LET text == ComposeContext(p, st, m, <<"a">>, i)
               head == LeadingSections(p, st)
           IN  {[op |-> "truncateContext", context |-> text, maxLength |-> n,
                 head |-> head] :
                   n \in {0, Len(text) - 1, Len(text), Len(text) + 1, Len(text) \div 2,
                          Len(head), Len(head) + ReservedRunes,
                          Len(head) + ReservedRunes + 1, LongText, 2 * LongText}} :
           p \in SummaryPrompts, st \in StylePrompts, m \in ContextMessages,
           i \in ContextInputs}

BuildInputs ==
    {[op |-> "BuildContext", conversationID |-> c, senderID |-> <<"a">>, input |-> i,
      faults |-> f] :
        c \in {1, 2}, i \in ContextInputs, f \in SUBSET ContextQueries}

contextFrame ==
    <<config, now, conversations, messages, engineVars, saveVars, evalIn, provider, conn>>

\* context.go:120
EvalTruncateContext ==
    /\ evalIn.op = "truncateContext"
    /\ evalOut = NoEval
    /\ evalOut' = [op |-> evalIn.op,
                   result |-> truncateContext(evalIn.context, evalIn.maxLength)]
    /\ UNCHANGED <<summaries, styles>>
    /\ UNCHANGED contextFrame

\* context.go:34, with the rows GetSummaryPrompt and GetStylePrompt create
\* (part_001:46-56, style.go:50-60) once the conversation was found
EvalBuildContext ==
    /\ evalIn.op = "BuildContext"
    /\ evalOut = NoEval
    /\ LET built == BuildContextUnder(evalIn.faults, evalIn.conversationID,
                                      evalIn.senderID, evalIn.input)
           found == /\ "conversation" \notin evalIn.faults
                    /\ ConversationByID(evalIn.conversationID) # NoRow
       IN  /\ evalOut' = [op |-> evalIn.op, ok |-> built.ok, result |-> built.context,
                          truncated |-> built.truncated]
           /\ summaries' = IF found /\ "summary" \notin evalIn.faults
                           THEN SummariesAfterGetOrCreate(evalIn.conversationID)
                           ELSE summaries
           /\ styles' = IF found /\ "style" \notin evalIn.faults
                        THEN StylesAfterGetOrCreate(evalIn.conversationID, evalIn.senderID)
                        ELSE styles
    /\ UNCHANGED contextFrame

InitContext ==
    /\ config \in ContextConfigs
    /\ now = 1
    /\ conversations = <<<<"c">>>>
    /\ messages \in ContextMessages
    /\ summaries \in ContextSummaries
    /\ styles \in ContextStyles
    /\ InitEngineIdle
    /\ InitSaveIdle
    /\ evalIn \in BuildInputs \cup TruncationInputs
    /\ evalOut = NoEval

NextContext ==
    \/ EvalTruncateContext
    \/ EvalBuildContext

SpecContext == InitContext /\ [][NextContext]_vars

\* C9: the context BuildContext returns has at most 3 x MaxContextTokens runes.
C9_ContextWithinBudget ==
    (evalOut.op = "BuildContext" /\ evalOut.ok) =>
        RuneLen(evalOut.result) <= 3 * config.Context.MaxContextTokens

\* C10: truncateContext returns a context of at most maxLength runes unchanged.
C10_ShortContextUnchanged ==
    (evalOut.op = "truncateContext" /\ RuneLen(evalIn.context) <= evalIn.maxLength) =>
        evalOut.result = evalIn.context

\* a context with a history section and of exactly the budget came back as it was
C10_Witness ==
    /\ evalOut.op = "truncateContext"
    /\ RuneLen(evalIn.context) = evalIn.maxLength
    /\ StringsIndex(evalIn.context, HistoryMarker) >= 0
    /\ evalOut.result = evalIn.context

\* the part of the text from the history header on
HistoryOf(context) == Suffix(context, StringsIndex(context, HistoryMarker))

OverBudgetWithHistory ==
    /\ evalOut.op = "truncateContext"
    /\ RuneLen(evalIn.context) > evalIn.maxLength
    /\ StringsIndex(evalIn.context, HistoryMarker) >= 0

BuiltSummaryPrompt ==
    IF "summary" \in evalIn.faults THEN <<>>
    ELSE summaries[SummaryRowOf(evalIn.conversationID)].Prompt

BuiltStylePrompt ==
    IF "style" \in evalIn.faults THEN <<>>
    ELSE RenderStylePrompt(styles[StyleRowOf(evalIn.conversationID, evalIn.senderID)].Features)

BuiltRecentMessages ==
    getRecentMessages(evalIn.conversationID, config.Context.RecentMessagesCount)

BuiltUntruncated == evalOut.op = "BuildContext" /\ evalOut.ok /\ ~evalOut.truncated

\* the 1-based position just after the first occurrence of the header, 0 when absent
SectionBody(header) ==
    IF StringsIndex(evalOut.result, header) = -1 THEN 0
    ELSE StringsIndex(evalOut.result, header) + Len(header) + 1

\* C12: an untruncated context built by BuildContext has the labelled sections
\* background, style, recent history, current input in that order; the
\* background section is there iff the summary prompt is non-empty, the style
\* section iff the style prompt is non-empty, the history section iff there is
\* a recent message, the input section always; each header is followed by its
\* content and the input section ends the context.
C12_SectionsInOrder ==
    BuiltUntruncated =>
        LET result == evalOut.result
            summaryAt == SectionBody(SummaryHeader)
            styleAt == SectionBody(StyleHeader)
            historyAt == SectionBody(HistoryHeader)
            inputAt == SectionBody(InputHeader)
            inputLine == MessageLine(evalIn.senderID, evalIn.input)
        IN  /\ (summaryAt > 0) <=> (BuiltSummaryPrompt # <<>>)
            /\ (styleAt > 0) <=> (BuiltStylePrompt # <<>>)
            /\ (historyAt > 0) <=> (Len(BuiltRecentMessages) > 0)
            /\ inputAt > 0
            /\ summaryAt > 0 =>
                   /\ summaryAt = Len(SummaryHeader) + 1
                   /\ StartsWithAt(result, summaryAt, BuiltSummaryPrompt \o <<"\n", "\n">>)
            /\ styleAt > 0 =>
                   /\ styleAt > summaryAt
                   /\ StartsWithAt(result, styleAt, BuiltStylePrompt \o <<"\n", "\n">>)
            /\ historyAt > 0 =>
                   /\ historyAt > styleAt
                   /\ historyAt > summaryAt
                   /\ StartsWithAt(result, historyAt,
                                   HistoryLines(BuiltRecentMessages) \o <<"\n">>)
            /\ inputAt > historyAt
            /\ inputAt > styleAt
            /\ inputAt > summaryAt
            /\ Suffix(result, inputAt - 1) = inputLine
            /\ Len(result)
                   = (IF summaryAt > 0
                      THEN Len(SummaryHeader) + Len(BuiltSummaryPrompt) + 2 ELSE 0)
                     + (IF styleAt > 0
                        THEN Len(StyleHeader) + Len(BuiltStylePrompt) + 2 ELSE 0)
                     + (IF historyAt > 0
                        THEN Len(HistoryHeader) + Len(HistoryLines(BuiltRecentMessages)) + 1
                        ELSE 0)
                     + Len(InputHeader) + Len(inputLine)

\* an untruncated context with all four sections
C12_Witness ==
    /\ BuiltUntruncated
    /\ BuiltSummaryPrompt # <<>>
    /\ BuiltStylePrompt # <<>>
    /\ Len(BuiltRecentMessages) > 0
    /\ SectionBody(SummaryHeader) > 0
    /\ SectionBody(StyleHeader) > SectionBody(SummaryHeader)
    /\ SectionBody(HistoryHeader) > SectionBody(StyleHeader)
    /\ SectionBody(InputHeader) > SectionBody(HistoryHeader)

ConversationLookupFails ==
    "conversation" \in evalIn.faults \/ evalIn.conversationID \notin 1..Len(conversations)

\* C13: BuildContext returns an error exactly when the conversation lookup or
\* the recent-message fetch fails; when only the summary lookup or the style
\* lookup fails it succeeds, with that section left out of the context.
C13_OnlyRequiredLookupsFatal ==
    evalOut.op = "BuildContext" =>
        /\ ~evalOut.ok <=> (ConversationLookupFails \/ "messages" \in evalIn.faults)
        /\ evalOut.ok /\ "summary" \in evalIn.faults =>
               StringsIndex(evalOut.result, SummaryHeader) = -1
        /\ evalOut.ok /\ "style" \in evalIn.faults =>
               StringsIndex(evalOut.result, StyleHeader) = -1
        /\ evalOut.ok /\ ~evalOut.truncated =>
               Suffix(evalOut.result, Len(evalOut.result) - Len(evalIn.input))
                   = evalIn.input

\* the summary and style lookups both failed on a conversation with a stored
\* summary and a learned style, and the context was built from history and input
C13_Witness ==
    /\ evalOut.op = "BuildContext"
    /\ evalIn.faults = {"summary", "style"}
    /\ evalOut.ok
    /\ SummaryRowOf(evalIn.conversationID) # NoRow
    /\ summaries[SummaryRowOf(evalIn.conversationID)].Prompt # <<>>
    /\ StyleRowOf(evalIn.conversationID, evalIn.senderID) # NoRow
    /\ StringsIndex(evalOut.result, HistoryMarker) = 0
    /\ StringsIndex(evalOut.result, InputHeader) > 0

(***************************************************************************)
(* analyzeStyle, its tone classification and getTopN applied to drawn      *)
(* messages, quotients and frequency maps                                  *)
(***************************************************************************)
Emoji == "U1F600"

\* a sentence of `length` runes, a sentence ending in an emoji, texts with a
\* terminator in the middle, at the end and twice in a row, texts of words
StyleContents ==
    {<<>>, <<"h", "i">>, <<"o", "k", " ", "o", "k", SentenceEnd, Emoji>>,
     Fill("x", 10), Fill("x", 9) \o <<Emoji>>, Fill("y", 31), Fill("z", 15),
     <<"o", "k", SentenceEnd>>, <<"o", "k", SentenceEnd, SentenceEnd, "h", "i">>,
     <<"a", "b", " ", "c", "d", " ", "a", "b">>, <<"e", "f", " ", "g", " ", "c", "d">>}

\* lists of up to two messages, and five sentences of ten runes with one emoji
\* among their fifty runes
StyleMessageLists ==
    {<<>>} \cup {<<c>> : c \in StyleContents}
    \cup {<<c, d>> : c \in StyleContents, d \in StyleContents}
    \cup {<<Fill("x", 9) \o <<Emoji>>, Fill("x", 10), Fill("x", 10), Fill("x", 10),
            Fill("x", 10)>>}

AnalysisInputs == {[op |-> "analyzeStyle", contents |-> l] : l \in StyleMessageLists}

\* sentence lengths around 10 and 30, emoji percentages around 2
ToneInputs ==
    {[op |-> "ToneOf", sentenceLength |-> [num |-> a, den |-> 2],
      emojiUsage |-> [num |-> e * 100, den |-> 50]] :
        a \in {0, 19, 20, 21, 30, 59, 60, 61, 62}, e \in 0..2}

VocabularyWords == {<<"a", "b">>, <<"c", "d">>, <<"e", "f">>}

\* frequency maps of up to three words, selections of fewer words than, as
\* many words as and more words than the map has
TopNInputs ==
    {[op |-> "getTopN", wordFreq |-> f, n |-> n] :
        f \in UNION {[W -> 1..2] : W \in SUBSET VocabularyWords}, n \in {1, 2, TopWords}}

styleFrame == <<config, now, dbVars, engineVars, saveVars, evalIn, provider, conn>>

\* the messages of one sender with the drawn contents
AnalysedMessages ==
    [i \in 1..Len(evalIn.contents) |-> Message(1, <<"a">>, evalIn.contents[i], i, 0)]

\* style.go:180
EvalAnalyzeStyle ==
    /\ evalIn.op = "analyzeStyle"
    /\ evalOut = NoEval
    /\ \E features \in analyzeStyle(AnalysedMessages) :
          evalOut' = [op |-> evalIn.op, result |-> features]
    /\ UNCHANGED styleFrame

\* style.go:249
EvalToneOf ==
    /\ evalIn.op = "ToneOf"
    /\ evalOut = NoEval
    /\ evalOut' = [op |-> evalIn.op,
                   result |-> ToneOf(evalIn.sentenceLength, evalIn.emojiUsage)]
    /\ UNCHANGED styleFrame

\* style.go:280
EvalGetTopN ==
    /\ evalIn.op = "getTopN"
    /\ evalOut = NoEval
    /\ \E top \in getTopN(evalIn.wordFreq, evalIn.n) :
          evalOut' = [op |-> evalIn.op, result |-> top]
    /\ UNCHANGED styleFrame

\* six phrases
StoredPhrases ==
    <<<<"p", "1">>, <<"p", "2">>, <<"p", "3">>, <<"p", "4">>, <<"p", "5">>, <<"p", "6">>>>

\* features a style row may hold: with and without vocabulary (getTopN stores
\* none for a single token), the tones of analyzeStyle (none in a new row),
\* average lengths of zero and more, no phrase, one, five and six
StoredFeatures ==
    {[Vocabulary |-> v, SentenceLength |-> l, EmojiUsage |-> [num |-> 0, den |-> 1],
      Tone |-> t, Punctuation |-> <<>>, CommonPhrases |-> Prefix(StoredPhrases, n)] :
        v \in {<<>>, (<<"o", "k">> :> 2)},
        l \in {[num |-> 0, den |-> 1], [num |-> 7, den |-> 2], [num |-> 31, den |-> 1]},
        t \in {"casual", "formal", "friendly"},
        n \in {0, 1, 5, 6}}
    \cup {EmptyFeatures}

\* the styles table: no row, or the row of sender a in conversation 1
PromptStyles ==
    {<<>>}
    \cup {<<[ConversationID |-> 1, UserID |-> <<"a">>, Features |-> f,
             Description |-> <<>>, LastMessageCount |-> 1, LastUpdatedAt |-> 0]>> :
            f \in StoredFeatures}

PromptInputs == {[op |-> "GetStylePrompt", conversationID |-> 1, userID |-> <<"a">>]}

\* style.go:150, with the row GetOrCreateStyle creates (style.go:50-60)
EvalGetStylePrompt ==
    /\ evalIn.op = "GetStylePrompt"
    /\ evalOut = NoEval
    /\ evalOut' = [op |-> evalIn.op,
                   result |-> GetStylePrompt(evalIn.conversationID, evalIn.userID)]
    /\ styles' = StylesAfterGetOrCreate(evalIn.conversationID, evalIn.userID)
    /\ UNCHANGED <<config, now, conversations, messages, summaries, engineVars, saveVars,
                   evalIn, provider, conn>>

InitStyle ==
    /\ config = EngineConfig
    /\ now = 0
    /\ conversations = <<<<"c">>>>
    /\ messages = <<>>
    /\ summaries = <<>>
    /\ evalIn \in AnalysisInputs \cup ToneInputs \cup TopNInputs \cup PromptInputs
    /\ styles \in IF evalIn.op = "GetStylePrompt" THEN PromptStyles ELSE {<<>>}
    /\ InitEngineIdle
    /\ InitSaveIdle
    /\ evalOut = NoEval

NextStyle ==
    \/ EvalAnalyzeStyle
    \/ EvalToneOf
    \/ EvalGetTopN
    \/ EvalGetStylePrompt

SpecStyle == InitStyle /\ [][NextStyle]_vars

\* the comparisons of quotients of naturals
Below(q, n) == q.num < n * q.den

Above(q, n) == q.num > n * q.den

Exactly(q, n) == q.num = n * q.den

\* the classification the claim states, on an average length and a percentage
StatedTone(sentenceLength, emojiUsage) ==
    IF Below(sentenceLength, 10) /\ Above(emojiUsage, 2) THEN "casual"
    ELSE IF Above(sentenceLength, 30) THEN "formal"
    ELSE "friendly"

\* C18: the tone is "casual" iff the average sentence length is below 10 and
\* the emoji percentage above 2, otherwise "formal" iff the length is above
\* 30, otherwise "friendly", all comparisons strict: length 10 with 2 percent
\* is not casual, length 31 is formal, length 15 without emoji is friendly.
\* It holds of the classification alone and of the tone analyzeStyle stores
\* next to the length and the percentage it computed.
C18_ToneClassification ==
    /\ evalOut.op = "ToneOf" =>
           /\ evalOut.result = StatedTone(evalIn.sentenceLength, evalIn.emojiUsage)
           /\ Exactly(evalIn.sentenceLength, 10) /\ Exactly(evalIn.emojiUsage, 2) =>
                  evalOut.result # "casual"
           /\ Exactly(evalIn.sentenceLength, 31) => evalOut.result = "formal"
           /\ Exactly(evalIn.sentenceLength, 15) /\ Exactly(evalIn.emojiUsage, 0) =>
                  evalOut.result = "friendly"
    /\ evalOut.op = "analyzeStyle" =>
           evalOut.result.Tone
               = StatedTone(evalOut.result.SentenceLength, evalOut.result.EmojiUsage)

\* five sentences of ten runes with one emoji in fifty runes were analysed:
\* length exactly 10, exactly 2 percent, and the tone is friendly
C18_Witness ==
    /\ evalOut.op = "analyzeStyle"
    /\ Exactly(evalOut.result.SentenceLength, 10)
    /\ Exactly(evalOut.result.EmojiUsage, 2)
    /\ evalOut.result.Tone = "friendly"

\* C19: the vocabulary analyzeStyle returns for messages with d distinct
\* whitespace-delimited tokens of two runes or more has min(10, d) entries,
\* each a token with its frequency, and no token left out occurs more often
\* than one that is in.
C19_VocabularyTopTen ==
    evalOut.op = "analyzeStyle" =>
        LET frequency == WordFreq(AnalysedMessages)
            vocabulary == evalOut.result.Vocabulary
        IN  /\ Cardinality(DOMAIN vocabulary) = Min(10, Cardinality(DOMAIN frequency))
            /\ \A w \in DOMAIN vocabulary :
                   /\ w \in DOMAIN frequency
                   /\ vocabulary[w] = frequency[w]
                   /\ \A x \in DOMAIN frequency \ DOMAIN vocabulary :
                          frequency[x] <= frequency[w]

\* the sentences of all the messages that are not empty
NonEmptySegments ==
    SelectSeq(Concat([i \in 1..Len(evalIn.contents) |->
                         Split(evalIn.contents[i], SentenceEnd)]),
              LAMBDA segment : segment # <<>>)

\* C20: the average sentence length analyzeStyle returns is the total rune
\* length of the non-empty segments of all messages divided by the number of
\* those segments (0 when there is none).
C20_AverageOverNonEmptySegments ==
    evalOut.op = "analyzeStyle" =>
        LET total == SumOf([j \in 1..Len(NonEmptySegments) |-> Len(NonEmptySegments[j])])
            average == evalOut.result.SentenceLength
        IN  IF Len(NonEmptySegments) = 0 THEN average.num = 0
            ELSE average.num * Len(NonEmptySegments) = total * average.den

Contains(text, part) == StringsIndex(text, part) >= 0

\* the features of the row whose prompt was rendered
RenderedFeatures == styles[StyleRowOf(evalIn.conversationID, evalIn.userID)].Features

\* C21: GetStylePrompt returns the empty string when the stored vocabulary is
\* empty; otherwise a fragment that begins with the title, has the tone line,
\* has the sentence-length line iff the average sentence length is above 0,
\* and has the common-phrases line iff there is a phrase, listing the first
\* five phrases and no further one.
C21_StylePromptLines ==
    evalOut.op = "GetStylePrompt" =>
        LET features == RenderedFeatures
            result == evalOut.result
        IN  IF DOMAIN features.Vocabulary = {} THEN result = <<>>
            ELSE /\ Prefix(result, Len(StyleLabels.title)) = StyleLabels.title
                 /\ Contains(result,
                             StyleLabels.tone \o ToneRunes(features.Tone) \o <<"\n">>)
                 /\ Contains(result, StyleLabels.length)
                        <=> features.SentenceLength.num > 0
                 /\ Contains(result, StyleLabels.phrases)
                        <=> Len(features.CommonPhrases) > 0
                 /\ \A i \in 1..Len(features.CommonPhrases) :
                        Contains(result, features.CommonPhrases[i]) <=> i <= 5
                 /\ Count(result, {"U3001"})
                        = Max(Min(5, Len(features.CommonPhrases)) - 1, 0)

\* six phrases are stored next to a vocabulary and the prompt lists five
C21_Witness ==
    /\ evalOut.op = "GetStylePrompt"
    /\ DOMAIN RenderedFeatures.Vocabulary # {}
    /\ Len(RenderedFeatures.CommonPhrases) = 6
    /\ RenderedFeatures.SentenceLength.num > 0
    /\ Contains(evalOut.result, RenderedFeatures.CommonPhrases[5])
    /\ ~Contains(evalOut.result, RenderedFeatures.CommonPhrases[6])

\* what the provider answered the call of GetSuggestions made for c
ProviderAnswer(c) == llmCalls[CHOOSE i \in 1..Len(llmCalls) : llmCalls[i].by = c].answer

\* the limit the claim states
StatedMaximum(req) ==
    IF req.MaxSuggestions > 0 THEN req.MaxSuggestions
    ELSE config.Autocomplete.SuggestionCount

\* C22: a response returned by GetSuggestions has at most as many suggestions
\* as the request's max_suggestions when that is above 0, and as the configured
\* suggestion count otherwise; its list is the leading part of the provider's
\* list, cut only as far as the limit demands.
C22_SuggestionsWithinMaximum ==
    \A c \in Calls :
        (calls[c].pc = "returned" /\ calls[c].ret.kind = "resp") =>
            /\ Len(calls[c].ret.Suggestions) <= StatedMaximum(calls[c].req)
            /\ InvokedProvider(c) =>
                   /\ ProviderAnswer(c).ok
                   /\ calls[c].ret.Suggestions
                          = Prefix(ProviderAnswer(c).list, Len(calls[c].ret.Suggestions))
                   /\ Len(calls[c].ret.Suggestions)
                          = Min(Len(ProviderAnswer(c).list), StatedMaximum(calls[c].req))
            /\ ~InvokedProvider(c) => calls[c].ret.Suggestions = <<>>

\* a request asking for one suggestion got the first of the provider's three,
\* and a request asking for none in particular got the configured two
C22_Witness ==
    \E c, d \in Calls :
        /\ calls[c].pc = "returned"
        /\ calls[c].req.MaxSuggestions = 1
        /\ InvokedProvider(c)
        /\ Len(ProviderAnswer(c).list) = 3
        /\ calls[c].ret = Response(<<"s1">>, llmCalls[CHOOSE i \in 1..Len(llmCalls) :
                                                         llmCalls[i].by = c].context)
        /\ calls[d].pc = "returned"
        /\ calls[d].req.MaxSuggestions = 0
        /\ InvokedProvider(d)
        /\ Len(ProviderAnswer(d).list) = 3
        /\ calls[d].ret.kind = "resp"
        /\ Len(calls[d].ret.Suggestions) = config.Autocomplete.SuggestionCount

\* the timer of call c was stopped before it fired
Superseded(c) == timers[c].state = "stopped"

\* the call of the provider made for c
ProviderCall(c) == llmCalls[CHOOSE i \in 1..Len(llmCalls) : llmCalls[i].by = c]

\* what call c returned is what its own timer's GetSuggestions produced
OwnResult(c) ==
    /\ timers[c].state = "fired"
    /\ calls[c].ret.kind = "resp" /\ InvokedProvider(c) =>
           /\ ProviderCall(c).input = calls[c].req.Input
           /\ calls[c].ret.ContextUsed = ProviderCall(c).context
           /\ calls[c].ret.Suggestions
                  = Prefix(ProviderCall(c).answer.list, Len(calls[c].ret.Suggestions))
    /\ calls[c].ret.kind = "resp" /\ ~InvokedProvider(c) =>
           /\ calls[c].ret.Suggestions = <<>>
           /\ Len(calls[c].req.Input) < config.Autocomplete.MinTriggerLength
    /\ calls[c].ret = ErrorResult("llm") => InvokedProvider(c) /\ ~ProviderCall(c).answer.ok

\* C23: a call of GetSuggestionsWithDebounce that returns anything but the
\* timeout error returns the result of the GetSuggestions its own timer ran,
\* for its own request; a call whose timer was stopped before firing never has
\* GetSuggestions run for it, never finds anything in its channels, and
\* eventually returns the timeout error.
C23_ResultToOwnCaller ==
    /\ [](\A c \in Calls :
            /\ (Returned(c) /\ ~TimedOut(c)) => OwnResult(c)
            /\ Superseded(c) =>
                   /\ resultChan[c] = <<>>
                   /\ errorChan[c] = <<>>
                   /\ calls[c].gs = "none"
                   /\ ~InvokedBuildContext(c)
                   /\ Returned(c) => TimedOut(c))
    /\ \A c \in Calls : Superseded(c) ~> TimedOut(c)

\* the first caller was superseded and got the timeout error, the second got
\* the response made for its own, longer input
C23_Witness ==
    \E c, d \in Calls :
        /\ Superseded(c)
        /\ TimedOut(c)
        /\ Returned(d)
        /\ calls[d].ret.kind = "resp"
        /\ InvokedProvider(d)
        /\ DebounceKey(calls[d].req) = DebounceKey(calls[c].req)
        /\ calls[d].req.Input # calls[c].req.Input
        /\ ProviderCall(d).input = calls[d].req.Input

\* the calls whose timer for the key is installed, not stopped and not fired
PendingTimers(key) ==
    {c \in Calls : Issued(c) /\ DebounceKey(calls[c].req) = key
                              /\ timers[c].state = "pending"}

\* C24: under every interleaving of concurrent calls on one key, at most one
\* timer of the key is pending at any time.
C24_OnePendingTimerPerKey ==
    \A key \in DebounceKeys : Cardinality(PendingTimers(key)) <= 1

\* no call for the key is between its Load and its Store
EntrySectionsDone(key) ==
    \A c \in Calls :
        (Issued(c) /\ DebounceKey(calls[c].req) = key) => calls[c].pc \notin {"stop", "store"}

\* C25: once the calls for a key have stored their timers, a pending timer of
\* the key is the entry of the key (the entry is the most recently installed
\* timer: a completed callback has removed no entry but its own), and an entry
\* never outlives the callback of its timer (Fired -> Idle).
C25_EntryIsLatestTimer ==
    \A key \in DebounceKeys :
        EntrySectionsDone(key) =>
            /\ PendingTimers(key) # {} => debounceMap[key] \in PendingTimers(key)
            /\ debounceMap[key] # NoTimer => timers[debounceMap[key]].cb # "done"

\* the GetSuggestions that the timer of c started is under way
InFlight(c) == timers[c].state = "fired" /\ calls[c].gs \in {"start", "llm"}

\* C26: a timer that has fired is never cancelled: whatever later requests for
\* its key do, it stays fired, its GetSuggestions goes on from where it is,
\* and its caller goes on waiting until it receives or times out; the result
\* that GetSuggestions produces is put into the channels of its own caller,
\* who returns it unless the timeout came first; and the request that arrived
\* meanwhile has a timer of its own.
C26_FiredTimerNotCancelled ==
    /\ [][\A c \in Calls :
            timers[c].state = "fired" =>
                /\ timers'[c].state = "fired"
                /\ calls[c].gs = "start" => calls'[c].gs \in {"start", "llm", "done"}
                /\ calls[c].gs = "llm" => calls'[c].gs \in {"llm", "done"}
                /\ calls[c].gs = "done" => calls'[c].gs = "done"]_vars
    /\ [](\A c \in Calls :
            /\ (timers[c].state = "fired" /\ calls[c].gs = "done" /\ calls[c].pc = "wait") =>
                   Len(resultChan[c]) + Len(errorChan[c]) = 1
            /\ (Returned(c) /\ ~TimedOut(c)) => OwnResult(c)
            /\ calls[c].pc \in {"store", "wait"} => timers[c].state # "none")
    /\ \A c \in Calls : (timers[c].state = "fired" /\ calls[c].gs = "done") ~> Returned(c)

\* a second request for the key has run timer.Stop() on the entry it loaded and
\* has its own pending timer, while the first timer, fired, is still the entry
\* and its GetSuggestions is waiting for the provider
C26_Witness ==
    \E c, d \in Calls :
        /\ c # d
        /\ DebounceKey(calls[c].req) = DebounceKey(calls[d].req)
        /\ InFlight(c)
        /\ calls[c].gs = "llm"
        /\ calls[c].pc = "wait"
        /\ debounceMap[DebounceKey(calls[c].req)] = c
        /\ calls[d].pc = "store"
        /\ timers[d].state = "pending"

\* the tasks whose call of UpdateSummary for the conversation has returned nil
\* (part_001:110): the provider gave a summary and db.Save is done
SucceededUpdates(conversationID) ==
    {k \in Tasks :
        /\ tasks[k].conversation = conversationID
        /\ tasks[k].pc \notin {"generate", "saveSummary"}
        /\ \E i \in 1..Len(summaryCalls) :
              /\ summaryCalls[i].by = k
              /\ summaryCalls[i].response # NoResponse
              /\ GenerateSummary(summaryCalls[i].response).ok}

\* C27: the stored version of a conversation's summary is 1, the version it is
\* created with, plus the number of UpdateSummary calls for the conversation
\* that have returned success, under every interleaving of the saves and of
\* their background updates.
C27_VersionCountsRefreshes ==
    \A c \in 1..Len(conversations) :
        \A id \in SummariesOf(c) :
            summaries[id].Version = 1 + Cardinality(SucceededUpdates(c))

\* the tasks that have read the summary row `id` into their local struct
\* (part_001:83) and have not yet written it back (part_001:101)
InSummarySection(id) ==
    {k \in Tasks : tasks[k].pc \in {"generate", "saveSummary"} /\ tasks[k].summary.id = id}

\* the same for the style row `id` (style.go:109 to 119)
InStyleSection(id) ==
    {k \in Tasks : tasks[k].pc = "saveStyle" /\ tasks[k].style.id = id}

\* C28: no summary record and no style record is, at any time, held by two
\* refreshes between their read and their write: a refresh never reads the
\* record between another refresh's read and that refresh's write.
C28_RefreshSectionsDisjoint ==
    /\ \A id \in 1..Len(summaries) : Cardinality(InSummarySection(id)) <= 1
    /\ \A id \in 1..Len(styles) : Cardinality(InStyleSection(id)) <= 1

\* the message counts that the finished refreshes of the conversation's summary
\* have written
WrittenCounts(conversationID) ==
    {Len(summaryCalls[i].messages) :
        i \in {j \in 1..Len(summaryCalls) :
                  summaryCalls[j].by \in SucceededUpdates(conversationID)}}

\* C29: the stored LastMessageCount of a summary is never lower than a count
\* that a refresh of that summary has written before: it never decreases,
\* whatever the interleaving of the saves and of their background refreshes.
C29_LastMessageCountKept ==
    \A c \in 1..Len(conversations) :
        \A id \in SummariesOf(c) :
            \A n \in WrittenCounts(c) : summaries[id].LastMessageCount >= n

(***************************************************************************)
(* The readers of the messages table on drawn tables: getRecentMessages    *)
(* (context.go:100-117) and the ascending queries of the refresh path and  *)
(* of GetHistory (handler.go:133-136, 150-153)                             *)
(***************************************************************************)
MaxMessages == 3

\* row i is older than row j by the columns of the ORDER BY clause
KeyBefore(i, j) ==
    \/ messages[i].Sequence < messages[j].Sequence
    \/ /\ messages[i].Sequence = messages[j].Sequence
       /\ messages[i].CreatedAt < messages[j].CreatedAt

\* what a query of the conversation's rows with
\* Order("sequence ASC, created_at ASC"), or with both DESC, may return (the
\* keys, in order): the order of rows that tie in both columns is left open
\* by SQL
OrderedReads(conversationID, descending) ==
    {o \in Orderings(MessageIDsOf(conversationID)) :
        \A a, b \in 1..Len(o) :
            a < b => IF descending THEN ~KeyBefore(o[a], o[b])
                                   ELSE ~KeyBefore(o[b], o[a])}

\* the columns that matter to the readers; the sequence number is the client's
\* (handler.go:85), the creation time the clock's at the insert
RecentKeys == [ConversationID : {1, 2}, Sequence : 1..2, CreatedAt : 0..1]

\* tables of up to MaxMessages rows, inserted at non-decreasing times; the
\* content of a row is its number
RecentTables ==
    {[i \in 1..Len(ks) |->
         Message(ks[i].ConversationID, <<"a">>, Decimal(i), ks[i].Sequence,
                 ks[i].CreatedAt)] :
        ks \in {k \in UNION {[1..n -> RecentKeys] : n \in 0..MaxMessages} :
                  \A i, j \in 1..Len(k) : i < j => k[i].CreatedAt <= k[j].CreatedAt}}

RecentConfigs ==
    {[EngineConfig EXCEPT !.Context.RecentMessagesCount = n] : n \in 1..MaxMessages}

\* the answers of the store to the two queries for conversation 1
RecentInputs ==
    {[op |-> "getRecentMessages", conversationID |-> 1, ascending |-> a,
      descending |-> d] :
        a \in OrderedReads(1, FALSE), d \in OrderedReads(1, TRUE)}

\* context.go:53 and 76-85: the window BuildContext fetches and the history
\* lines it writes from it
EvalGetRecentMessages ==
    /\ evalIn.op = "getRecentMessages"
    /\ evalOut = NoEval
    /\ LET page == RecentPage(evalIn.descending, config.Context.RecentMessagesCount)
       IN  evalOut' = [op |-> evalIn.op, result |-> page,
                       section |-> HistoryLines([k \in 1..Len(page) |->
                                                   messages[page[k]]])]
    /\ UNCHANGED <<config, now, dbVars, engineVars, saveVars, evalIn, provider, conn>>

InitRecent ==
    /\ config \in RecentConfigs
    /\ now = 1
    /\ conversations = <<<<"c">>, <<"d">>>>
    /\ messages \in RecentTables
    /\ summaries = <<>>
    /\ styles = <<>>
    /\ InitEngineIdle
    /\ InitSaveIdle
    /\ evalIn \in RecentInputs
    /\ evalOut = NoEval

NextRecent == EvalGetRecentMessages

SpecRecent == InitRecent /\ [][NextRecent]_vars

\* the place of row `id` in the reading `order`
PlaceIn(order, id) == CHOOSE p \in 1..Len(order) : order[p] = id

\* C30: the window that BuildContext fetches holds min(N, total) rows of the
\* conversation, N being the configured window size; no row left out is more
\* recent, by (sequence, creation time), than a row of the window; the window
\* is listed oldest first and written to the history section in that order;
\* and its rows follow one another as they do in what the ascending query of
\* the refresh path and of GetHistory returns for the same table.
C30_RecentWindowAsOtherReaders ==
    evalOut.op = "getRecentMessages" =>
        LET window == evalOut.result
            ids == MessageIDsOf(evalIn.conversationID)
            inWindow == {window[a] : a \in 1..Len(window)}
        IN  /\ Len(window) = Min(config.Context.RecentMessagesCount, Cardinality(ids))
            /\ Cardinality(inWindow) = Len(window)
            /\ inWindow \subseteq ids
            /\ \A i \in inWindow : \A j \in ids \ inWindow : ~KeyBefore(i, j)
            /\ \A a, b \in 1..Len(window) : a < b => ~KeyBefore(window[b], window[a])
            /\ evalOut.section
                   = Concat([a \in 1..Len(window) |->
                                MessageLine(<<"a">>, Decimal(window[a])) \o <<"\n">>])
            /\ \A a, b \in 1..Len(window) :
                   a < b => PlaceIn(evalIn.ascending, window[a])
                                < PlaceIn(evalIn.ascending, window[b])

(***************************************************************************)
(* llm.Client.callPython and callPythonForSummary (llm.go:126-218): the    *)
(* clock counts seconds here, as config.LLM.Timeout does                   *)
(***************************************************************************)
\* the last second at which a call is made
LastProviderStart == 1

MaxTimeout == 2

\* the clock stops when the timer of the last call has run out
ProviderHorizon == LastProviderStart + MaxTimeout + 1

\* config.go:156-158: a timeout that is not positive is refused at start-up
ProviderConfigs == {[EngineConfig EXCEPT !.LLM.Timeout = t] : t \in 1..MaxTimeout}

providerFrame == <<config, dbVars, engineVars, saveVars, evalVars, conn>>

\* a select without the time.After case
TimeoutNever(p) == FALSE

\* llm.go:158, 205: the channel of time.After(Timeout seconds) has its value
TimeoutDue(p) == now >= provider[p].startedAt + config.LLM.Timeout

\* llm.go:140-153, 187-200: the command is prepared, the goroutine of cmd.Run()
\* started and the select entered; Run either starts the process or fails at
\* once and sends its error
RunScript(p, action) ==
    /\ provider[p].pc = "idle"
    /\ \A q \in ProviderCalls : q < p => provider[q].pc # "idle"
    /\ now <= LastProviderStart
    /\ \E started \in BOOLEAN :
          provider' = [provider EXCEPT ![p] =
                          [@ EXCEPT !.pc = "select", !.action = action, !.startedAt = now,
                                    !.script = IF started THEN "running" ELSE "failed",
                                    !.done = IF started THEN <<>> ELSE <<"error">>]]
    /\ UNCHANGED now
    /\ UNCHANGED providerFrame

\* llm.go:126
callPython(p) == RunScript(p, "complete")

\* llm.go:173
callPythonForSummary(p) == RunScript(p, "generate_summary")

\* llm.go:149-151, 196-198: the process ends (by itself with either status, or
\* killed) and the goroutine sends what Run returned; the channel has room
ScriptExits(p) ==
    /\ provider[p].script \in {"running", "killed"}
    /\ \E status \in IF provider[p].script = "killed" THEN {"error"} ELSE {"ok", "error"} :
          provider' = [provider EXCEPT ![p].script = "exited",
                                       ![p].done = Append(@, status)]
    /\ UNCHANGED now
    /\ UNCHANGED providerFrame

\* llm.go:154-169, 201-216: the case <-done, then the answer is parsed
ReceiveDone(p) ==
    /\ provider[p].pc = "select"
    /\ provider[p].done # <<>>
    /\ \E parsed \in BOOLEAN :
          provider' = [provider EXCEPT ![p] =
                          [@ EXCEPT !.pc = "returned", !.done = Tail(@),
                                    !.returnedAt = now,
                                    !.result = IF provider[p].done[1] = "ok" /\ parsed
                                               THEN "response" ELSE "error"]]
    /\ UNCHANGED now
    /\ UNCHANGED providerFrame

\* llm.go:158-160, 205-207: the case <-time.After, the process is killed
ReceiveTimeout(p) ==
    /\ provider[p].pc = "select"
    /\ TimeoutDue(p)
    /\ provider' = [provider EXCEPT ![p] =
                       [@ EXCEPT !.pc = "returned", !.returnedAt = now,
                                 !.result = "timeout",
                                 !.script = IF @ = "running" THEN "killed" ELSE @]]
    /\ UNCHANGED now
    /\ UNCHANGED providerFrame

\* a second passes; a caller whose select has a case that is ready takes it
\* before the clock moves
ProviderTick ==
    /\ now < ProviderHorizon
    /\ \A p \in ProviderCalls :
           provider[p].pc = "select" => (provider[p].done = <<>> /\ ~TimeoutDue(p))
    /\ now' = now + 1
    /\ UNCHANGED provider
    /\ UNCHANGED providerFrame

InitProvider ==
    /\ config \in ProviderConfigs
    /\ now = 0
    /\ conversations = <<>>
    /\ messages = <<>>
    /\ summaries = <<>>
    /\ styles = <<>>
    /\ InitEngineIdle
    /\ InitSaveIdle
    /\ InitEvalIdle

\* the steps of the callers and of the clock; the scripts end when they please
CallerSteps ==
    \/ \E p \in ProviderCalls : callPython(p)
    \/ \E p \in ProviderCalls : callPythonForSummary(p)
    \/ \E p \in ProviderCalls : ReceiveDone(p)
    \/ \E p \in ProviderCalls : ReceiveTimeout(p)
    \/ ProviderTick

NextProvider ==
    \/ CallerSteps
    \/ \E p \in ProviderCalls : ScriptExits(p)

\* the callers' goroutines are scheduled and the clock goes on; nothing is
\* assumed of the scripts
SpecProvider == InitProvider /\ [][NextProvider]_vars /\ WF_vars(CallerSteps)

\* C31: a call of callPython or callPythonForSummary that is waiting has not
\* waited longer than the configured timeout; it has returned no later than
\* the timeout after it started the script; it returns the timeout error only
\* when the timeout has run out, and returns it whenever the script had not
\* finished by then (any other result means Run had returned); and every call
\* under way eventually returns, whatever the script does.
C31_ProviderCallBounded ==
    /\ [](\A p \in ProviderCalls :
            /\ provider[p].pc = "select" =>
                   now <= provider[p].startedAt + config.LLM.Timeout
            /\ provider[p].pc = "returned" =>
                   /\ provider[p].returnedAt <= provider[p].startedAt + config.LLM.Timeout
                   /\ provider[p].result \in {"response", "error", "timeout"}
                   /\ provider[p].result = "timeout" =>
                          provider[p].returnedAt
                              = provider[p].startedAt + config.LLM.Timeout
                   /\ provider[p].result # "timeout" =>
                          provider[p].script \in {"exited", "failed"}
                   /\ provider[p].script = "killed" => provider[p].result = "timeout")
    /\ \A p \in ProviderCalls :
           (provider[p].pc = "select") ~> (provider[p].pc = "returned")

\* a summary call whose script was still running when the timeout ran out:
\* it returned the timeout error and killed the process; a completion call
\* has returned the script's answer
C31_Witness ==
    \E p, q \in ProviderCalls :
        /\ provider[p].action = "generate_summary"
        /\ provider[p].pc = "returned"
        /\ provider[p].result = "timeout"
        /\ provider[p].script = "killed"
        /\ provider[q].action = "complete"
        /\ provider[q].pc = "returned"
        /\ provider[q].result = "response"

(***************************************************************************)
(* api.Client (websocket.go): one connection, whose readPump reads a       *)
(* message and handles it before it reads the next                         *)
(***************************************************************************)
\* the autocomplete messages the client sends on the connection
NConnectionMessages == 2

connectionFrame ==
    <<config, now, dbVars, debounceMap, resultChan, errorChan, llmCalls, buildCalls,
      saveVars, evalVars, provider>>

\* the k-th message of the client: the text typed so far, for the same
\* conversation and sender
ConnectionRequest(k) ==
    [ConversationID |-> <<"c">>, SenderID |-> <<"a">>,
     Input |-> Prefix(Typed, Min(k + 1, Len(Typed))), MaxSuggestions |-> 0]

\* the client writes an autocomplete message to the socket
ClientSends ==
    /\ Len(conn.sentAt) < NConnectionMessages
    /\ conn' = [conn EXCEPT !.inbox = Append(@, ConnectionRequest(Len(conn.sentAt) + 1)),
                            !.sentAt = Append(@, now)]
    /\ UNCHANGED <<calls, timers>>
    /\ UNCHANGED connectionFrame

\* websocket.go:83-97, 151-169: readPump, back at ReadMessage, takes the next
\* message and handleMessage enters GetSuggestionsWithDebounce with its request
ReadMessage(c) ==
    /\ conn.handling = 0
    /\ conn.inbox # <<>>
    /\ NextToIssue(c)
    /\ now + WaitTimeout <= MaxTime
    /\ Enter(c, Head(conn.inbox))
    /\ conn' = [conn EXCEPT !.inbox = Tail(@), !.handling = c]
    /\ UNCHANGED connectionFrame

\* websocket.go:169-186, 203-208: GetSuggestionsWithDebounce has returned, the
\* response or the error is put on the send channel, and readPump goes back to
\* ReadMessage
HandleMessageReturns ==
    /\ conn.handling # 0
    /\ calls[conn.handling].pc = "returned"
    /\ conn' = [conn EXCEPT !.handling = 0,
                            !.sent = Append(@, calls[conn.handling].ret)]
    /\ UNCHANGED <<calls, timers>>
    /\ UNCHANGED connectionFrame

NextConnection ==
    \/ ClientSends
    \/ \E c \in 1..NConnectionMessages : ReadMessage(c)
    \/ HandleMessageReturns
    \/ DebounceSteps

SpecConnection == InitDebounce /\ [][NextConnection]_vars

\* the client has sent its messages within one debounce window, all have been
\* handled, and every timer has fired or was stopped
ConnectionBurstSettled ==
    /\ Len(conn.sentAt) = NConnectionMessages
    /\ \A i, j \in 1..NConnectionMessages :
           conn.sentAt[i] - conn.sentAt[j] < DebounceDuration
    /\ conn.inbox = <<>>
    /\ \A c \in 1..NConnectionMessages :
           /\ calls[c].pc \in {"wait", "returned"}
           /\ timers[c].state # "pending"
           /\ calls[c].gs # "start"

\* C32: when the client has sent its NConnectionMessages messages for one
\* (conversation, sender) on the connection within one debounce window, the
\* completion provider is invoked exactly once, with the input of the last
\* message.
C32_ConnectionBurstCoalesced ==
    ConnectionBurstSettled =>
        /\ Len(llmCalls) = 1
        /\ llmCalls[1].input = ConnectionRequest(NConnectionMessages).Input

\* C33: the vocabulary that a run of the feature extraction has returned is
\* the vocabulary that every run over the same messages returns, and the map
\* that a run of getTopN has returned is the map that every run over the same
\* frequencies returns, ties in count included.
C33_VocabularyDeterministic ==
    /\ evalOut.op = "analyzeStyle" =>
           \A again \in analyzeStyle(AnalysedMessages) :
               again.Vocabulary = evalOut.result.Vocabulary
    /\ evalOut.op = "getTopN" =>
           \A again \in getTopN(evalIn.wordFreq, evalIn.n) : again = evalOut.result

\* the background refresh of task k has updated the style of its sender, and no
\* message has been saved to the conversation since it read the messages
JustRefreshedStyle(k) ==
    /\ tasks[k].kind = "save"
    /\ tasks[k].pc = "done"
    /\ tasks[k].styleRefreshedAt > 0
    /\ Len(AllMessages(tasks[k].conversation)) = tasks[k].styleRefreshedAt

\* C34: right after UpdateStyle has succeeded in the refresh that a save
\* triggered at n messages of the conversation, ShouldUpdateStyle is false for
\* the stored profile and the same n; and two refreshes of one sender's profile
\* are at least UpdateThresholdMessages saved messages apart, other senders'
\* messages in the conversation or not.
C34_StyleRefreshResetsStaleness ==
    /\ \A k \in Tasks :
           JustRefreshedStyle(k) =>
               ~ShouldUpdateStyle(
                    styles[StyleRowOf(tasks[k].conversation, tasks[k].req.SenderID)],
                    tasks[k].styleRefreshedAt)
    /\ \A j, k \in Tasks :
           (/\ j < k
            /\ tasks[j].styleRefreshedAt > 0
            /\ tasks[k].styleRefreshedAt > 0
            /\ tasks[j].req.SenderID = tasks[k].req.SenderID) =>
               tasks[k].styleRefreshedAt - tasks[j].styleRefreshedAt
                   >= config.Style.UpdateThresholdMessages

\* text ends with the runes of part
EndsWith(text, part) ==
    /\ Len(part) <= Len(text)
    /\ SubSeq(text, Len(text) - Len(part) + 1, Len(text)) = part

\* C35: a context that BuildContext returns ends with the current-input
\* section, made of its header and of the caller's sender and whole input,
\* whether the context was truncated or not.
C35_InputSectionLast ==
    (evalOut.op = "BuildContext" /\ evalOut.ok) =>
        EndsWith(evalOut.result,
                 InputHeader \o MessageLine(evalIn.senderID, evalIn.input))

(***************************************************************************)
(* GetSuggestionsWithDebounce called for pairs whose identifiers contain   *)
(* the separator of the debounce key                                       *)
(***************************************************************************)
CallPair(c) ==
    /\ NextToIssue(c)
    /\ now + WaitTimeout <= MaxTime
    /\ \E req \in PairRequests : Enter(c, req)
    /\ UNCHANGED <<now, summaries, styles, debounceMap, resultChan, errorChan,
                   llmCalls, buildCalls>>
    /\ UNCHANGED engineFrame

InitPairs ==
    /\ config = EngineConfig
    /\ now = 0
    /\ conversations = <<<<"c">>, <<"c", ":", "a">>>>
    /\ messages = <<Message(1, <<"a">>, <<"h", "i">>, 1, 1)>>
    /\ summaries = <<>>
    /\ styles = <<>>
    /\ InitEngineIdle
    /\ InitSaveIdle
    /\ InitEvalIdle

NextPairs ==
    \/ \E c \in 1..NFairCalls : CallPair(c)
    \/ DebounceSteps

SpecPairs == InitPairs /\ [][NextPairs]_vars

\* the calls c and d are for the same (conversation, sender) pair
SamePair(c, d) ==
    /\ calls[c].req.ConversationID = calls[d].req.ConversationID
    /\ calls[c].req.SenderID = calls[d].req.SenderID

\* C36: a call that is about to run timer.Stop() on the entry it loaded has
\* loaded the timer of a call for its own pair; a timer that was stopped was
\* stopped by a later call for its own pair; and the entry that a call
\* replaces, or that its callback removes, is the timer of a call for its own
\* pair; whatever characters the identifiers contain.
C36_PairsIsolated ==
    /\ \A c \in Calls :
           calls[c].pc = "stop" => SamePair(c, calls[c].existing)
    /\ \A d \in Calls :
           timers[d].state = "stopped" =>
               \E c \in Calls : c > d /\ Issued(c) /\ SamePair(c, d)
    /\ \A c \in Calls :
           (/\ calls[c].pc = "store" \/ timers[c].cb = "delete"
            /\ debounceMap[DebounceKey(calls[c].req)] # NoTimer) =>
               SamePair(c, debounceMap[DebounceKey(calls[c].req)])

\* C37: no channel of a call ever holds more than the one value it has room
\* for, so no send of a callback blocks; once the GetSuggestions of a fired
\* timer has returned, its callback has sent the result or the error, also
\* when its caller has returned with the timeout error; the callback's last
\* step leaves the key without entry; and the callback eventually ends.
C37_CallbackTerminates ==
    /\ [](\A c \in Calls :
            /\ Len(resultChan[c]) + Len(errorChan[c]) <= 1
            /\ (timers[c].state = "fired" /\ calls[c].gs = "done") =>
                   timers[c].cb \in {"delete", "done"}
            /\ (timers[c].cb \in {"delete", "done"} /\ TimedOut(c)) =>
                   Len(resultChan[c]) + Len(errorChan[c]) = 1)
    /\ [][\A c \in Calls :
            (timers[c].cb = "delete" /\ timers'[c].cb = "done") =>
                debounceMap'[DebounceKey(calls[c].req)] = NoTimer]_vars
    /\ \A c \in Calls :
           (timers[c].state = "fired" /\ calls[c].gs = "done") ~> (timers[c].cb = "done")

\* the caller returned the timeout error while the provider had not answered;
\* the provider then answered, the callback put the response into the channel
\* nobody reads any more, removed the entry and ended
C37_Witness ==
    \E c \in Calls :
        /\ TimedOut(c)
        /\ timers[c].state = "fired"
        /\ calls[c].gs = "done"
        /\ timers[c].cb = "done"
        /\ Len(resultChan[c]) = 1
        /\ debounceMap[DebounceKey(calls[c].req)] = NoTimer

====
